---------------------------- MODULE Spec2Model ----------------------------
(***************************************************************************)
(* Model of query/outputnode_graphql.go: the encoder that walks a fastJson *)
(* result tree together with a GraphQL selection set and writes the        *)
(* GraphQL JSON response into a byte buffer, recording errors in a list.   *)
(*                                                                         *)
(* The output buffer is a sequence of bytes (one-character strings); the   *)
(* recursion of encodeGraphQL is an explicit stack of frames, one frame    *)
(* per call, the last element being the running call.  A frame holds the   *)
(* arguments and the local variables of the call.  Every step of the code  *)
(* is a pure operator from a machine state [stack, out, errList, ret] to   *)
(* the next one; the actions apply these operators to the variables.       *)
(***************************************************************************)
EXTENDS Integers, Sequences, FiniteSets, TLC

VARIABLES
    input,      \* what the arguments of the outermost call are made from
    at,         \* the step that the running call takes next
    stack,      \* the frames of the calls of encodeGraphQL in progress
    out,        \* *bytes.Buffer: the bytes written so far
    errList,    \* *x.GqlErrorList
    ret,        \* the value returned by the call that ended last
    nullCall,   \* the last call of writeGraphQLNull: arguments and result
    failure,    \* the return of false under way: where it began and what was
                \* in the error list before
    entry       \* the length of errList at the entry of each call in progress

vars == <<input, at, stack, out, errList, ret, nullCall, failure, entry>>

(***************************************************************************)
(* Bounds of the model.                                                    *)
(***************************************************************************)
\* the longest run of contiguous children that carry one attr
MaxRun == 2
\* the encoder is not followed once cnt has reached this value
MaxCnt == 5

(***************************************************************************)
(* Attribute interner: attribute names and their ids.                      *)
(***************************************************************************)
AttrTable == <<"_root_", "dgraph.type", "dgraph.uid", "P.a", "P.q", "Q.n", "Q.r", "P.me", "P.g">>

idForAttr(name) ==
    IF \E k \in DOMAIN AttrTable : AttrTable[k] = name
    THEN CHOOSE k \in DOMAIN AttrTable : AttrTable[k] = name
    ELSE Len(AttrTable) + 1

attrForID(id) == IF id \in DOMAIN AttrTable THEN AttrTable[id] ELSE ""

dgraphTypeAttrId == idForAttr("dgraph.type")

Typename == "__typename"

ErrExpectedScalar == "Expected a scalar value, but got an object."
ErrExpectedNonNull == "Non-nullable field was not present in result from Dgraph."
ErrExpectedSingleItem == "A list was returned, but GraphQL was expecting just one item."
ErrExpectedList == "A single item was returned, but GraphQL was expecting a list."
ErrScalarVal == "getScalarVal failed"

(***************************************************************************)
(* gqlSchema.Field.  ListType is Type().ListType() != nil, ItemNullable is *)
(* Type().ListType().Nullable(), Nullable is Type().Nullable().            *)
(* ResponseName is the sequence of bytes of the response name.             *)
(***************************************************************************)
Field(name, resp, alias, isList, nullable, itemNullable, skip, onTypes, sels) ==
    [Name |-> name, ResponseName |-> resp, DgraphAlias |-> alias,
     ListType |-> isList, Nullable |-> nullable, ItemNullable |-> itemNullable,
     IsGeo |-> FALSE, Skip |-> skip, Include |-> TRUE, OnTypes |-> onTypes,
     ObjectName |-> <<"P">>, SelectionSet |-> sels]

\* the value of a gqlSchema.Field variable that was never assigned
NoField == Field("", <<>>, "", FALSE, TRUE, TRUE, FALSE, {}, <<>>)

\* Field.IncludeInterfaceField: the field belongs to one of the concrete types
IncludeInterfaceField(f, dgraphTypes) ==
    \E k \in DOMAIN dgraphTypes : dgraphTypes[k] \in f.OnTypes

\* Field.TypeName: the first concrete type among the candidates
TypeName(f, dgraphTypes) ==
    IF Len(dgraphTypes) > 0 THEN dgraphTypes[1] ELSE f.ObjectName

\* Field.GqlErrorf and x.GqlErrorf(...).WithPath
GqlErrorf(path, message) == [Message |-> message, Path |-> path]

\* the segments of a path: a response name or a position in a list
KeySeg(resp) == [key |-> resp, idx |-> -1]
IdxSeg(k) == [key |-> <<>>, idx |-> k]

(***************************************************************************)
(* fastJsonNode.  kids is the linked list child, child.next, ...; val is   *)
(* the scalar value (<<>> is nil) and err tells that reading it fails.     *)
(* A position in kids beyond its length is the nil node.                   *)
(***************************************************************************)
\* geo is what json.Unmarshal finds in the value of a geo scalar: the type,
\* whether there is a coordinates array, and the array with its numbers as
\* they are written in the value
NoGeo == [type |-> "", has |-> FALSE, coordinates |-> <<>>]

Node(attr, list, val, err, kids) ==
    [attr |-> idForAttr(attr), list |-> list, val |-> val, err |-> err, kids |-> kids,
     geo |-> NoGeo]

getAttr(n) == n.attr
getList(n) == n.list
getScalarVal(n) == [val |-> n.val, err |-> n.err]

(***************************************************************************)
(* bytes.Buffer                                                            *)
(***************************************************************************)
Truncate(buf, n) == SubSeq(buf, 1, n)
NullBytes == <<"n", "u", "l", "l">>
Quoted(bytes) == <<"\"">> \o bytes \o <<"\"">>

writeKeyGraphQL(field, buf) == buf \o <<"\"">> \o field.ResponseName \o <<"\"", ":">>

\* a strip that leaves the comma
checkAndStripCommaKept(buf) == buf

checkAndStripComma(buf) ==
    IF Len(buf) > 0 /\ buf[Len(buf)] = "," THEN Truncate(buf, Len(buf) - 1) ELSE buf

skipField(f, dgraphTypes) ==
    IF f.Skip \/ ~f.Include THEN TRUE
    ELSE IF Len(dgraphTypes) > 0 /\ ~IncludeInterfaceField(f, dgraphTypes) THEN TRUE
    ELSE FALSE

\* a null writer that does not cut the buffer
writeGraphQLNullNoTruncate(f, buf, keyEndPos) ==
    IF f.ListType THEN [out |-> buf \o <<"[", "]">>, ok |-> TRUE]
    ELSE IF f.Nullable THEN [out |-> buf \o NullBytes, ok |-> TRUE]
    ELSE [out |-> buf, ok |-> FALSE]

\* the buffer after the call and the value returned
writeGraphQLNull(f, buf, keyEndPos) ==
    LET t == Truncate(buf, keyEndPos) IN
    IF f.ListType THEN [out |-> t \o <<"[", "]">>, ok |-> TRUE]
    ELSE IF f.Nullable THEN [out |-> t \o NullBytes, ok |-> TRUE]
    ELSE [out |-> t, ok |-> FALSE]

(***************************************************************************)
(* Geo values, lines 438-569.  A number of the value becomes a float64 in  *)
(* json.Unmarshal (here: its hundredths) and is written by Sprintf("%v"),  *)
(* the shortest text of the number.                                        *)
(***************************************************************************)
Longitude == "longitude"
Latitude == "latitude"
Coordinates == "coordinates"
Points == "points"
Polygons == "polygons"
Point == "Point"
Polygon == "Polygon"
MultiPolygon == "MultiPolygon"
ErrMissingCoordinates == "missing coordinates in geojson value"
ErrUnsupportedGeo == "unsupported geo type"

DigitChars == <<"0", "1", "2", "3", "4", "5", "6", "7", "8", "9">>
DigitVal(c) == (CHOOSE d \in DOMAIN DigitChars : DigitChars[d] = c) - 1

RECURSIVE ParseDigits(_, _)
ParseDigits(b, acc) ==
    IF b = <<>> THEN acc ELSE ParseDigits(Tail(b), acc * 10 + DigitVal(Head(b)))

\* the float64 of a number text with at most two digits after the point
ParseFloat(b) ==
    LET dot == IF \E k \in DOMAIN b : b[k] = "."
               THEN CHOOSE k \in DOMAIN b : b[k] = "." ELSE Len(b) + 1
        frac == SubSeq(SubSeq(b, dot + 1, Len(b)) \o <<"0", "0">>, 1, 2)
    IN  ParseDigits(SubSeq(b, 1, dot - 1), 0) * 100 + ParseDigits(frac, 0)

RECURSIVE FormatInt(_)
FormatInt(n) ==
    IF n < 10 THEN <<DigitChars[n + 1]>>
    ELSE FormatInt(n \div 10) \o <<DigitChars[(n % 10) + 1]>>

\* fmt.Sprintf("%v", x) for a float64
SprintfV(x) ==
    LET f == x % 100 IN
    FormatInt(x \div 100)
        \o (IF f = 0 THEN <<>>
            ELSE IF f % 10 = 0 THEN <<".", DigitChars[(f \div 10) + 1]>>
            ELSE <<".", DigitChars[(f \div 10) + 1], DigitChars[(f % 10) + 1]>>)

\* json.Unmarshal of the coordinates: arrays nested depth deep, of numbers
RECURSIVE Unmarshal(_, _)
Unmarshal(raw, depth) ==
    IF depth = 0 THEN ParseFloat(raw)
    ELSE [k \in DOMAIN raw |-> Unmarshal(raw[k], depth - 1)]

\* the bytes of a type name
Bytes(name) ==
    CASE name = Point -> <<"P", "o", "i", "n", "t">>
      [] name = Polygon -> <<"P", "o", "l", "y", "g", "o", "n">>
      [] name = MultiPolygon -> <<"M", "u", "l", "t", "i", "P", "o", "l", "y", "g", "o", "n">>
      [] OTHER -> <<"P", "o", "i", "n", "t", "L", "i", "s", "t">>

\* lines 462-481
RECURSIVE completePointFrom(_, _, _, _)
completePointFrom(field, coordinate, buf, k) ==
    IF k > Len(field.SelectionSet) THEN buf
    ELSE LET f == field.SelectionSet[k]
             keyed == writeKeyGraphQL(f, buf \o (IF k = 1 THEN <<>> ELSE <<",">>))
             valued == IF f.Name = Longitude THEN keyed \o SprintfV(coordinate[1])
                       ELSE IF f.Name = Latitude THEN keyed \o SprintfV(coordinate[2])
                       ELSE IF f.Name = Typename THEN keyed \o Quoted(Bytes(Point))
                       ELSE keyed
         IN  completePointFrom(field, coordinate, valued, k + 1)

\* a point writer that takes the latitude first
completePointSwapped(field, coordinate, buf) ==
    completePointFrom(field, <<coordinate[2], coordinate[1]>>, buf \o <<"{">>, 1) \o <<"}">>

completePoint(field, coordinate, buf) ==
    completePointFrom(field, coordinate, buf \o <<"{">>, 1) \o <<"}">>

\* lines 486-538: the points of a ring, the fields of a ring, the rings, the
\* fields of the polygon
RECURSIVE polygonPoints(_, _, _, _)
polygonPoints(f2, ring, buf, k) ==
    IF k > Len(ring) THEN buf
    ELSE polygonPoints(f2, ring,
            completePoint(f2, ring[k], buf \o (IF k = 1 THEN <<>> ELSE <<",">>)), k + 1)

RECURSIVE polygonRingFields(_, _, _, _)
polygonRingFields(f1, ring, buf, k) ==
    IF k > Len(f1.SelectionSet) THEN buf
    ELSE LET f2 == f1.SelectionSet[k]
             keyed == writeKeyGraphQL(f2, buf \o (IF k = 1 THEN <<>> ELSE <<",">>))
             valued == IF f2.Name = Points
                       THEN polygonPoints(f2, ring, keyed \o <<"[">>, 1) \o <<"]">>
                       ELSE IF f2.Name = Typename THEN keyed \o Quoted(Bytes("PointList"))
                       ELSE keyed
         IN  polygonRingFields(f1, ring, valued, k + 1)

RECURSIVE polygonRings(_, _, _, _)
polygonRings(f1, polygon, buf, k) ==
    IF k > Len(polygon) THEN buf
    ELSE polygonRings(f1, polygon,
            polygonRingFields(f1, polygon[k],
                buf \o (IF k = 1 THEN <<>> ELSE <<",">>) \o <<"{">>, 1) \o <<"}">>, k + 1)

RECURSIVE polygonFields(_, _, _, _)
polygonFields(field, polygon, buf, k) ==
    IF k > Len(field.SelectionSet) THEN buf
    ELSE LET f1 == field.SelectionSet[k]
             keyed == writeKeyGraphQL(f1, buf \o (IF k = 1 THEN <<>> ELSE <<",">>))
             valued == IF f1.Name = Coordinates
                       THEN polygonRings(f1, polygon, keyed \o <<"[">>, 1) \o <<"]">>
                       ELSE IF f1.Name = Typename THEN keyed \o Quoted(Bytes(Polygon))
                       ELSE keyed
         IN  polygonFields(field, polygon, valued, k + 1)

completePolygon(field, polygon, buf) ==
    polygonFields(field, polygon, buf \o <<"{">>, 1) \o <<"}">>

\* lines 541-569
RECURSIVE multiPolygons(_, _, _, _)
multiPolygons(f, multiPolygon, buf, k) ==
    IF k > Len(multiPolygon) THEN buf
    ELSE multiPolygons(f, multiPolygon,
            completePolygon(f, multiPolygon[k], buf \o (IF k = 1 THEN <<>> ELSE <<",">>)),
            k + 1)

RECURSIVE multiPolygonFields(_, _, _, _)
multiPolygonFields(field, multiPolygon, buf, k) ==
    IF k > Len(field.SelectionSet) THEN buf
    ELSE LET f == field.SelectionSet[k]
             keyed == writeKeyGraphQL(f, buf \o (IF k = 1 THEN <<>> ELSE <<",">>))
             valued == IF f.Name = Polygons
                       THEN multiPolygons(f, multiPolygon, keyed \o <<"[">>, 1) \o <<"]">>
                       ELSE IF f.Name = Typename THEN keyed \o Quoted(Bytes(MultiPolygon))
                       ELSE keyed
         IN  multiPolygonFields(field, multiPolygon, valued, k + 1)

completeMultiPolygon(field, multiPolygon, buf) ==
    multiPolygonFields(field, multiPolygon, buf \o <<"{">>, 1) \o <<"}">>

\* lines 438-458: the buffer after the call, and the error returned if any
completeGeoObject(path, field, val, buf) ==
    IF ~val.has
    THEN [out |-> buf, err |-> <<GqlErrorf(path, ErrMissingCoordinates)>>]
    ELSE IF val.type = Point
    THEN [out |-> completePoint(field, val.coordinates, buf), err |-> <<>>]
    ELSE IF val.type = Polygon
    THEN [out |-> completePolygon(field, val.coordinates, buf), err |-> <<>>]
    ELSE IF val.type = MultiPolygon
    THEN [out |-> completeMultiPolygon(field, val.coordinates, buf), err |-> <<>>]
    ELSE [out |-> buf, err |-> <<GqlErrorf(path, ErrUnsupportedGeo)>>]

\* how deep the numbers are in the coordinates of a geo type
GeoDepth(type) ==
    IF type = Point THEN 1 ELSE IF type = Polygon THEN 3
    ELSE IF type = MultiPolygon THEN 4 ELSE 2

(***************************************************************************)
(* One call of encodeGraphQL: its arguments, its local variables and the   *)
(* place it has reached.  child, cur and next are positions in fj.kids.    *)
(* base is the length of the buffer when the call was entered.             *)
(***************************************************************************)
NewFrame(fj, childSelectionSet, parentField, parentPath, len) ==
    [fj |-> fj, childSelectionSet |-> childSelectionSet, parentField |-> parentField,
     parentPath |-> parentPath, pc |-> "entry", base |-> len,
     child |-> 1, dgraphTypes |-> <<>>, cnt |-> 0, i |-> 0, keyEndPos |-> 0,
     nullWritten |-> FALSE, curSelection |-> NoField, curSelectionIsList |-> FALSE,
     cur |-> 0, next |-> 0, itemPos |-> 0]

NoNullCall == [n |-> 0, field |-> NoField, pre |-> <<>>, pos |-> 0, post |-> <<>>, ok |-> FALSE]

\* the machine state at the start of the outermost call
Start(in) ==
    [stack |-> <<NewFrame(in.fj, in.childSelectionSet, in.parentField, <<>>, 0)>>,
     out |-> <<>>, errList |-> <<>>, ret |-> "none", nullCall |-> NoNullCall]

Top(s) == s.stack[Len(s.stack)]
SetTop(s, f) == [s EXCEPT !.stack[Len(s.stack)] = f]
\* return b: the frame is dropped and the caller finds b in ret
Return(s, b) == [s EXCEPT !.stack = SubSeq(@, 1, Len(@) - 1), !.ret = b]
\* the record of a call of writeGraphQLNull(field, out, pos) that gave r
NullCalled(s, field, pos, r) ==
    [n |-> 1, field |-> field, pre |-> s.out, pos |-> pos, post |-> r.out, ok |-> r.ok]

\* for next != nil && enc.getAttr(next) == attrId { next = next.next }
RECURSIVE RunEnd(_, _, _)
RunEnd(kids, next, attrId) ==
    IF next <= Len(kids) /\ getAttr(kids[next]) = attrId
    THEN RunEnd(kids, next + 1, attrId)
    ELSE next

(***************************************************************************)
(* The scalar case, lines 46-86.                                           *)
(***************************************************************************)
\* a scalar case that returns false for a read failure and appends no error
scalarErrSilent(s) == Return(s, "false")

\* a scalar case that puts its error at the head of the list
scalarErrPrepended(s) ==
    LET f == Top(s) IN
    Return([s EXCEPT !.errList = <<GqlErrorf(f.parentPath, ErrScalarVal)>> \o @], "false")

scalarErr(s) ==
    LET f == Top(s) IN
    Return([s EXCEPT !.errList = Append(@, GqlErrorf(f.parentPath, ErrScalarVal))], "false")

\* a scalar case that returns true for every absent value
scalarNilTrue(s) == Return(s, "true")

scalarNil(s) ==
    Return(s, IF Top(s).parentField.ListType THEN "true" ELSE "false")

\* a scalar case that does not write the value
scalarValDropped(s) == Return(s, "true")

scalarVal(s) ==
    Return([s EXCEPT !.out = @ \o getScalarVal(Top(s).fj).val], "true")

\* lines 73-79: the value of a geo field
scalarGeo(s) ==
    LET f == Top(s)
        g == f.fj.geo
        geoVal == [g EXCEPT !.coordinates = Unmarshal(@, GeoDepth(g.type))]
        r == completeGeoObject(f.parentPath, f.parentField, geoVal, s.out)
    IN  IF r.err # <<>>
        THEN Return([s EXCEPT !.errList = @ \o r.err], "false")
        ELSE Return([s EXCEPT !.out = r.out], "true")

\* a call that opens the object before it finds the selection set empty
expectedScalarBrace(s) ==
    LET f == Top(s) IN
    Return([s EXCEPT !.errList = Append(@, GqlErrorf(f.parentPath, ErrExpectedScalar)),
                     !.out = @ \o <<"{">>], "false")

\* lines 89-93
expectedScalar(s) ==
    LET f == Top(s) IN
    Return([s EXCEPT !.errList = Append(@, GqlErrorf(f.parentPath, ErrExpectedScalar))], "false")

\* lines 96-101
openObject(s) ==
    [SetTop(s, [Top(s) EXCEPT !.pc = "types", !.child = 1, !.dgraphTypes = <<>>])
        EXCEPT !.out = @ \o <<"{">>]

\* a turn that writes the type as well
harvestTypeWritten(s) ==
    LET f == Top(s)
        v == getScalarVal(f.fj.kids[f.child])
        typeStr == SubSeq(v.val, 2, Len(v.val) - 1)
    IN  [SetTop(s, [f EXCEPT !.child = @ + 1, !.dgraphTypes = Append(@, typeStr)])
            EXCEPT !.out = @ \o v.val]

\* one turn of the loop of lines 102-122
harvestType(s) ==
    LET f == Top(s)
        v == getScalarVal(f.fj.kids[f.child])
        typeStr == SubSeq(v.val, 2, Len(v.val) - 1)
    IN  IF v.err
        THEN [SetTop(s, [f EXCEPT !.child = @ + 1])
                EXCEPT !.errList = Append(@, GqlErrorf(f.parentPath, ErrScalarVal))]
        ELSE SetTop(s, [f EXCEPT !.child = @ + 1, !.dgraphTypes = Append(@, typeStr)])

\* lines 124-133
beginLoop(s) ==
    SetTop(s, [Top(s) EXCEPT !.pc = "loop", !.cnt = 0, !.i = 0, !.keyEndPos = 0,
                             !.nullWritten = FALSE])

(***************************************************************************)
(* The joined loop, lines 150-341.                                         *)
(***************************************************************************)
\* the condition of line 150 is false
loopExit(s) == SetTop(s, [Top(s) EXCEPT !.pc = "trail"])

\* lines 151-155 of a turn whose selection is not skipped
loopField(s) ==
    LET f == Top(s) IN
    SetTop(s, [f EXCEPT !.pc = "step1", !.cnt = @ + 1, !.nullWritten = FALSE,
                        !.curSelection = f.childSelectionSet[f.i + 1],
                        !.cur = f.child, !.next = f.child + 1])

\* lines 151-176 of a turn whose selection is skipped
loopSkip(s) ==
    LET f == Top(s)
        curSelection == f.childSelectionSet[f.i + 1]
        cur == f.child
        i == f.i + 1
        attrId == idForAttr(curSelection.DgraphAlias)
        next == IF getAttr(f.fj.kids[cur]) = attrId
                THEN RunEnd(f.fj.kids, cur + 1, attrId) ELSE cur + 1
    IN  [SetTop(s, [f EXCEPT !.cnt = 0, !.nullWritten = FALSE, !.i = i,
                             !.curSelection = curSelection, !.cur = cur, !.next = next,
                             !.child = IF getAttr(f.fj.kids[cur]) = attrId THEN next ELSE @])
            EXCEPT !.out = IF i = Len(f.childSelectionSet) THEN checkAndStripComma(@) ELSE @]

\* a Step-1 that takes keyEndPos for the first selection only
writeKeyStale(s) ==
    LET f == Top(s)
        keyed == writeKeyGraphQL(f.curSelection, s.out)
    IN  IF f.cnt = 1
        THEN [SetTop(s, [f EXCEPT !.pc = "step2",
                                  !.keyEndPos = IF f.i = 0 THEN Len(keyed) ELSE @,
                                  !.curSelectionIsList = f.curSelection.ListType])
                EXCEPT !.out = IF f.curSelection.ListType THEN keyed \o <<"[">> ELSE keyed]
        ELSE SetTop(s, [f EXCEPT !.pc = "step2"])

\* Step-1, lines 179-186
writeKey(s) ==
    LET f == Top(s)
        keyed == writeKeyGraphQL(f.curSelection, s.out)
    IN  IF f.cnt = 1
        THEN [SetTop(s, [f EXCEPT !.pc = "step2", !.keyEndPos = Len(keyed),
                                  !.curSelectionIsList = f.curSelection.ListType])
                EXCEPT !.out = IF f.curSelection.ListType THEN keyed \o <<"[">> ELSE keyed]
        ELSE SetTop(s, [f EXCEPT !.pc = "step2"])

\* lines 189-194
typename(s) ==
    LET f == Top(s) IN
    [SetTop(s, [f EXCEPT !.pc = "step3"])
        EXCEPT !.out = @ \o Quoted(TypeName(f.curSelection, f.dgraphTypes))]

\* lines 195-217
misaligned(s) ==
    LET f == Top(s)
        r == writeGraphQLNull(f.curSelection, s.out, f.keyEndPos)
        t == [s EXCEPT !.out = r.out, !.nullCall = NullCalled(s, f.curSelection, f.keyEndPos, r)]
    IN  IF ~r.ok
        THEN Return([t EXCEPT !.errList = Append(@,
                        GqlErrorf(Append(f.parentPath, KeySeg(f.curSelection.ResponseName)),
                                  ErrExpectedNonNull))], "false")
        ELSE SetTop(t, [f EXCEPT !.pc = "step3", !.nullWritten = TRUE])

\* a caller that counts the items of a list from 1
case1CallOneBased(s) ==
    LET f == Top(s)
        path == f.parentPath \o <<KeySeg(f.curSelection.ResponseName), IdxSeg(f.cnt)>>
        t == SetTop(s, [f EXCEPT !.pc = "ret1", !.itemPos = Len(s.out)])
    IN  [t EXCEPT !.stack = Append(@, NewFrame(f.fj.kids[f.cur], f.curSelection.SelectionSet,
                                               f.curSelection, path, Len(s.out)))]

\* case 1, lines 233-244: the call for one item of a list
case1Call(s) ==
    LET f == Top(s)
        path == f.parentPath \o <<KeySeg(f.curSelection.ResponseName), IdxSeg(f.cnt - 1)>>
        t == SetTop(s, [f EXCEPT !.pc = "ret1", !.itemPos = Len(s.out)])
    IN  [t EXCEPT !.stack = Append(@, NewFrame(f.fj.kids[f.cur], f.curSelection.SelectionSet,
                                               f.curSelection, path, Len(s.out)))]

\* a caller that writes null for the list and goes on with its next item
case1RetNoSkip(s) ==
    LET f == Top(s)
        typ == f.curSelection
        t == [s EXCEPT !.ret = "none"]
    IN  IF s.ret = "true"
        THEN SetTop(t, [f EXCEPT !.pc = "step3", !.child = @ + 1])
        ELSE IF typ.ItemNullable
        THEN [SetTop(t, [f EXCEPT !.pc = "step3", !.child = @ + 1])
                EXCEPT !.out = Truncate(@, f.itemPos) \o NullBytes]
        ELSE IF typ.Nullable
        THEN [SetTop(t, [f EXCEPT !.pc = "step3", !.nullWritten = TRUE, !.child = @ + 1])
                EXCEPT !.out = Truncate(@, f.keyEndPos) \o NullBytes]
        ELSE Return(t, "false")

\* case 1, lines 242-287: the call has returned
case1Ret(s) ==
    LET f == Top(s)
        typ == f.curSelection
        attrId == idForAttr(f.curSelection.DgraphAlias)
        next == RunEnd(f.fj.kids, f.next, attrId)
        cur == IF next > f.next THEN next - 1 ELSE f.cur
        t == [s EXCEPT !.ret = "none"]
    IN  IF s.ret = "true"
        THEN SetTop(t, [f EXCEPT !.pc = "step3", !.child = @ + 1])
        ELSE IF typ.ItemNullable
        THEN [SetTop(t, [f EXCEPT !.pc = "step3", !.child = @ + 1])
                EXCEPT !.out = Truncate(@, f.itemPos) \o NullBytes]
        ELSE IF typ.Nullable
        THEN [SetTop(t, [f EXCEPT !.pc = "step3", !.nullWritten = TRUE,
                                  !.cur = cur, !.next = next, !.child = cur + 1])
                EXCEPT !.out = Truncate(@, f.keyEndPos) \o NullBytes]
        ELSE Return(t, "false")

\* case 4, lines 288-293: the call for a single value
case4Call(s) ==
    LET f == Top(s)
        path == Append(f.parentPath, KeySeg(f.curSelection.ResponseName))
        t == SetTop(s, [f EXCEPT !.pc = "ret4"])
    IN  [t EXCEPT !.stack = Append(@, NewFrame(f.fj.kids[f.cur], f.curSelection.SelectionSet,
                                               f.curSelection, path, Len(s.out)))]

\* a caller that records an error of its own when the call it made fails
case4RetWithError(s) ==
    LET f == Top(s)
        r == writeGraphQLNull(f.curSelection, s.out, f.keyEndPos)
        t == [s EXCEPT !.ret = "none"]
        u == [t EXCEPT !.out = r.out, !.nullCall = NullCalled(s, f.curSelection, f.keyEndPos, r),
                       !.errList = Append(@,
                            GqlErrorf(Append(f.parentPath, KeySeg(f.curSelection.ResponseName)),
                                      ErrExpectedNonNull))]
    IN  IF s.ret = "true"
        THEN SetTop(t, [f EXCEPT !.pc = "step3", !.child = @ + 1])
        ELSE IF ~r.ok
        THEN Return(u, "false")
        ELSE SetTop(u, [f EXCEPT !.pc = "step3", !.nullWritten = TRUE, !.child = @ + 1])

\* case 4, lines 291-300: the call has returned
case4Ret(s) ==
    LET f == Top(s)
        r == writeGraphQLNull(f.curSelection, s.out, f.keyEndPos)
        t == [s EXCEPT !.ret = "none"]
        u == [t EXCEPT !.out = r.out, !.nullCall = NullCalled(s, f.curSelection, f.keyEndPos, r)]
    IN  IF s.ret = "true"
        THEN SetTop(t, [f EXCEPT !.pc = "step3", !.child = @ + 1])
        ELSE IF ~r.ok
        THEN Return(u, "false")
        ELSE SetTop(u, [f EXCEPT !.pc = "step3", !.nullWritten = TRUE, !.child = @ + 1])

\* a case 3 that passes one child only
case3NoSkip(s) ==
    LET f == Top(s)
        r == writeGraphQLNull(f.curSelection, s.out, f.keyEndPos)
        t == [s EXCEPT !.out = r.out,
                       !.nullCall = NullCalled(s, f.curSelection, f.keyEndPos, r),
                       !.errList = Append(@,
                            GqlErrorf(Append(f.parentPath, KeySeg(f.curSelection.ResponseName)),
                                      ErrExpectedSingleItem))]
    IN  IF ~r.ok
        THEN Return(t, "false")
        ELSE SetTop(t, [f EXCEPT !.pc = "step3", !.nullWritten = TRUE, !.child = @ + 1])

\* case 3, lines 301-313
case3(s) ==
    LET f == Top(s)
        r == writeGraphQLNull(f.curSelection, s.out, f.keyEndPos)
        attrId == idForAttr(f.curSelection.DgraphAlias)
        next == RunEnd(f.fj.kids, f.next, attrId)
        t == [s EXCEPT !.out = r.out,
                       !.nullCall = NullCalled(s, f.curSelection, f.keyEndPos, r),
                       !.errList = Append(@,
                            GqlErrorf(Append(f.parentPath, KeySeg(f.curSelection.ResponseName)),
                                      ErrExpectedSingleItem))]
    IN  IF ~r.ok
        THEN Return(t, "false")
        ELSE SetTop(t, [f EXCEPT !.pc = "step3", !.nullWritten = TRUE,
                                 !.next = next, !.child = next])

\* case 2, lines 314-323
case2(s) ==
    LET f == Top(s)
        r == writeGraphQLNull(f.curSelection, s.out, f.keyEndPos)
        t == [s EXCEPT !.out = r.out,
                       !.nullCall = NullCalled(s, f.curSelection, f.keyEndPos, r),
                       !.errList = Append(@,
                            GqlErrorf(Append(f.parentPath, KeySeg(f.curSelection.ResponseName)),
                                      ErrExpectedList))]
    IN  IF ~r.ok
        THEN Return(t, "false")
        ELSE SetTop(t, [f EXCEPT !.pc = "step3", !.nullWritten = TRUE, !.child = @ + 1])

\* Step-3 and Step-4, lines 326-341
closeList(s) ==
    LET f == Top(s)
        kids == f.fj.kids
        drained == f.next > Len(kids) \/ getAttr(kids[f.cur]) # getAttr(kids[f.next])
        i == IF drained THEN f.i + 1 ELSE f.i
        closed == IF drained /\ f.curSelectionIsList /\ ~f.nullWritten
                  THEN s.out \o <<"]">> ELSE s.out
    IN  [SetTop(s, [f EXCEPT !.pc = "loop", !.i = i, !.cnt = IF drained THEN 0 ELSE @])
            EXCEPT !.out = IF i < Len(f.childSelectionSet) THEN closed \o <<",">> ELSE closed]

(***************************************************************************)
(* The selections left when the children are used up, lines 346-379.       *)
(***************************************************************************)
trailExit(s) == SetTop(s, [Top(s) EXCEPT !.pc = "close"])

\* lines 347-357
trailSkip(s) ==
    LET f == Top(s)
        i == f.i + 1
    IN  [SetTop(s, [f EXCEPT !.i = i, !.curSelection = f.childSelectionSet[f.i + 1]])
            EXCEPT !.out = IF i = Len(f.childSelectionSet) THEN checkAndStripComma(@) ELSE @]

\* lines 347-378
trailField(s) ==
    LET f == Top(s)
        curSelection == f.childSelectionSet[f.i + 1]
        keyed == writeKeyGraphQL(curSelection, s.out)
        r == writeGraphQLNull(curSelection, keyed, Len(keyed))
        i == f.i + 1
        comma == IF i < Len(f.childSelectionSet) THEN <<",">> ELSE <<>>
        g == [f EXCEPT !.i = i, !.curSelection = curSelection]
    IN  IF curSelection.Name = Typename
        THEN [SetTop(s, g) EXCEPT
                !.out = keyed \o Quoted(TypeName(curSelection, f.dgraphTypes)) \o comma]
        ELSE IF ~r.ok
        THEN Return([s EXCEPT !.out = r.out,
                        !.nullCall = NullCalled([s EXCEPT !.out = keyed], curSelection, Len(keyed), r),
                        !.errList = Append(@,
                            GqlErrorf(Append(f.parentPath, KeySeg(curSelection.ResponseName)),
                                      ErrExpectedNonNull))], "false")
        ELSE [SetTop(s, g) EXCEPT
                !.out = r.out \o comma,
                !.nullCall = NullCalled([s EXCEPT !.out = keyed], curSelection, Len(keyed), r)]

\* lines 381-386
closeObject(s) == Return([s EXCEPT !.out = @ \o <<"}">>], "true")

(***************************************************************************)
(* Control flow: the step the running call takes next.                     *)
(***************************************************************************)
Branch(s) ==
    IF s.stack = <<>> THEN "done"
    ELSE
    LET f == Top(s)
        kids == f.fj.kids
        sels == f.childSelectionSet
        v == getScalarVal(f.fj)
    IN
    IF f.cnt >= MaxCnt THEN "stop"
    ELSE IF f.pc = "entry" THEN
        IF Len(kids) = 0 THEN
            IF v.err THEN "scalarErr"
            ELSE IF v.val = <<>> THEN "scalarNil"
            ELSE IF f.parentField.IsGeo THEN "scalarGeo"
            ELSE "scalarVal"
        ELSE IF Len(sels) = 0 THEN "expectedScalar"
        ELSE "openObject"
    ELSE IF f.pc = "types" THEN
        IF f.child <= Len(kids) /\ getAttr(kids[f.child]) = dgraphTypeAttrId
        THEN "harvestType" ELSE "beginLoop"
    ELSE IF f.pc = "loop" THEN
        IF ~(f.child <= Len(kids) /\ f.i < Len(sels)) THEN "loopExit"
        ELSE IF skipField(sels[f.i + 1], f.dgraphTypes) THEN "loopSkip"
        ELSE "loopField"
    ELSE IF f.pc = "step1" THEN "writeKey"
    ELSE IF f.pc = "step2" THEN
        IF f.curSelection.Name = Typename THEN "typename"
        ELSE IF f.curSelection.DgraphAlias # attrForID(getAttr(kids[f.cur])) THEN "misaligned"
        ELSE IF f.curSelectionIsList /\ getList(kids[f.cur]) THEN "case1Call"
        ELSE IF ~f.curSelectionIsList
                /\ (~getList(kids[f.cur]) \/ getAttr(f.fj) = idForAttr("_root_"))
        THEN "case4Call"
        ELSE IF ~f.curSelectionIsList THEN "case3"
        ELSE "case2"
    ELSE IF f.pc = "ret1" THEN "case1Ret"
    ELSE IF f.pc = "ret4" THEN "case4Ret"
    ELSE IF f.pc = "step3" THEN "closeList"
    ELSE IF f.pc = "trail" THEN
        IF ~(f.i < Len(sels)) THEN "trailExit"
        ELSE IF skipField(sels[f.i + 1], f.dgraphTypes) THEN "trailSkip"
        ELSE "trailField"
    ELSE "closeObject"

\* the step of the running call
Step(s) ==
    LET b == Branch(s) IN
    CASE b = "scalarErr" -> scalarErr(s)
      [] b = "scalarNil" -> scalarNil(s)
      [] b = "scalarVal" -> scalarVal(s)
      [] b = "scalarGeo" -> scalarGeo(s)
      [] b = "expectedScalar" -> expectedScalar(s)
      [] b = "openObject" -> openObject(s)
      [] b = "harvestType" -> harvestType(s)
      [] b = "beginLoop" -> beginLoop(s)
      [] b = "loopExit" -> loopExit(s)
      [] b = "loopSkip" -> loopSkip(s)
      [] b = "loopField" -> loopField(s)
      [] b = "writeKey" -> writeKey(s)
      [] b = "typename" -> typename(s)
      [] b = "misaligned" -> misaligned(s)
      [] b = "case1Call" -> case1Call(s)
      [] b = "case1Ret" -> case1Ret(s)
      [] b = "case4Call" -> case4Call(s)
      [] b = "case4Ret" -> case4Ret(s)
      [] b = "case3" -> case3(s)
      [] b = "case2" -> case2(s)
      [] b = "closeList" -> closeList(s)
      [] b = "trailExit" -> trailExit(s)
      [] b = "trailSkip" -> trailSkip(s)
      [] b = "trailField" -> trailField(s)
      [] b = "closeObject" -> closeObject(s)
      [] OTHER -> s

\* the run of the encoder from s, until it returns or is followed no more
RECURSIVE Run(_)
Run(s) == IF Branch(s) \in {"done", "stop"} THEN s ELSE Run(Step(s))

(***************************************************************************)
(* The inputs: the selection sets and the fastJson trees of the model.     *)
(* A tree has its dgraph.type children at the head, dgraph.uid as the last *)
(* child and the children of one attr next to each other; a child that is  *)
(* no list is the only one of its attr.                                    *)
(***************************************************************************)
Digits == <<"1", "2", "3", "4", "5", "6", "7", "8">>

\* the selection n: a scalar that must not be null
FieldN == Field("n", <<"n">>, "Q.n", FALSE, FALSE, TRUE, FALSE, {<<"P">>}, <<>>)

\* the selection r: an object with the selection n
FieldR(nullable) ==
    Field("r", <<"r">>, "Q.r", FALSE, nullable, TRUE, FALSE, {<<"P">>}, <<FieldN>>)

\* a selection that is left out: by @skip, or by its fragment when the
\* object tells its types
Skipped(f, typed) ==
    IF typed THEN [f EXCEPT !.OnTypes = {<<"C">>}] ELSE [f EXCEPT !.Skip = TRUE]

FieldT == Field(Typename, <<"t">>, "P.__typename", FALSE, FALSE, TRUE, FALSE, {<<"P">>}, <<>>)

\* the scalar selection a of type Int, Int!, [Int], [Int!], [Int]! or [Int!]!
FieldA(isList, nullable, itemNullable) ==
    Field("a", <<"a">>, "P.a", isList, nullable, itemNullable, FALSE, {<<"P">>}, <<>>)

\* the object selection q of type Q, Q!, [Q], [Q!], [Q]! or [Q!]!, whose
\* items are asked for n, or for r and its n
FieldQ(isList, nullable, itemNullable, inner) ==
    Field("q", <<"q">>, "P.q", isList, nullable, itemNullable, FALSE, {<<"P">>},
          IF inner = "n" THEN <<FieldN>> ELSE <<FieldR(inner = "r")>>)

\* the field of the outermost call
FieldMe == Field("me", <<"m">>, "P.me", FALSE, TRUE, TRUE, FALSE, {<<"P">>}, <<>>)

UidNode == Node("dgraph.uid", FALSE, <<"9">>, FALSE, <<>>)
TypeNode == Node("dgraph.type", TRUE, Quoted(<<"P">>), FALSE, <<>>)
NNode(k) == Node("Q.n", FALSE, <<Digits[k]>>, FALSE, <<>>)

\* the k-th child of attr P.a: a value, a value that cannot be read, or an object
ANode(list, item, k) ==
    Node("P.a", list, <<Digits[4 + k]>>, item = "err", IF item = "obj" THEN <<UidNode>> ELSE <<>>)

\* the k-th child of attr P.q: an object with its n ("ok") or without
\* ("bad"), or the child without value of a query that found nothing ("nil")
QNode(list, item, inner, k) ==
    LET own == IF item = "ok" THEN <<NNode(k), UidNode>> ELSE <<UidNode>>
    IN  Node("P.q", list, <<>>, FALSE,
             IF item = "nil" THEN <<>>
             ELSE IF inner = "n" THEN own
             ELSE <<Node("Q.r", FALSE, <<>>, FALSE, own), UidNode>>)

\* the selections of the geo types
FieldLon == Field(Longitude, <<"x">>, "Point.longitude", FALSE, FALSE, TRUE, FALSE, {<<"P">>}, <<>>)
FieldLat == Field(Latitude, <<"y">>, "Point.latitude", FALSE, FALSE, TRUE, FALSE, {<<"P">>}, <<>>)
FieldGeoT == Field(Typename, <<"t">>, "__typename", FALSE, FALSE, TRUE, FALSE, {<<"P">>}, <<>>)
FieldPoints(sels) == Field(Points, <<"p">>, "PointList.points", TRUE, FALSE, FALSE, FALSE, {<<"P">>}, sels)
FieldCoordinates(sels) ==
    Field(Coordinates, <<"c">>, "Polygon.coordinates", TRUE, FALSE, FALSE, FALSE, {<<"P">>}, sels)
FieldPolygons(sels) ==
    Field(Polygons, <<"m">>, "MultiPolygon.polygons", TRUE, FALSE, FALSE, FALSE, {<<"P">>}, sels)

\* the selection sets asked of a geo field
GeoSels == {"xy", "yx", "x", "ty", "poly", "polyT", "multi", "xSkipY", "polyNoY"}
GeoSelection(id) ==
    CASE id = "xy" -> <<FieldLon, FieldLat>>
      [] id = "yx" -> <<FieldLat, FieldLon>>
      [] id = "x" -> <<FieldLon>>
      [] id = "ty" -> <<FieldGeoT, FieldLat>>
      [] id = "xSkipY" -> <<FieldLon, [FieldLat EXCEPT !.Skip = TRUE]>>
      [] id = "polyNoY" ->
            <<FieldCoordinates(<<FieldPoints(<<FieldLon, [FieldLat EXCEPT !.Include = FALSE]>>)>>)>>
      [] id = "poly" -> <<FieldCoordinates(<<FieldPoints(<<FieldLon, FieldLat>>)>>)>>
      [] id = "polyT" -> <<FieldCoordinates(<<FieldGeoT, FieldPoints(<<FieldLat>>)>>), FieldGeoT>>
      [] OTHER -> <<FieldPolygons(<<FieldCoordinates(<<FieldPoints(<<FieldLon>>)>>)>>)>>

\* the geo field g of type Point, Polygon or MultiPolygon
FieldG(nullable, sels) ==
    [Field("g", <<"g">>, "P.g", FALSE, nullable, TRUE, FALSE, {<<"P">>}, sels)
        EXCEPT !.IsGeo = TRUE]

\* the values of the geo child: numbers as Dgraph writes them
GeoKinds == {"none", "pointA", "pointB", "nocoord", "line", "polygon", "multi"}
GeoPoint(k) ==
    IF k = 1 THEN <<<<"1", ".", "5", "0">>, <<"2">>>>
    ELSE IF k = 2 THEN <<<<"1", "2">>, <<"0", ".", "2", "5">>>>
    ELSE <<<<"3", ".", "0">>, <<"4", ".", "0", "7">>>>
GeoValue(kind) ==
    CASE kind = "pointA" -> [type |-> Point, has |-> TRUE, coordinates |-> GeoPoint(1)]
      [] kind = "pointB" -> [type |-> Point, has |-> TRUE, coordinates |-> GeoPoint(2)]
      [] kind = "nocoord" -> [type |-> Point, has |-> FALSE, coordinates |-> <<>>]
      [] kind = "line" ->
            [type |-> "LineString", has |-> TRUE, coordinates |-> <<GeoPoint(1), GeoPoint(2)>>]
      [] kind = "polygon" ->
            [type |-> Polygon, has |-> TRUE,
             coordinates |-> <<<<GeoPoint(1), GeoPoint(2)>>, <<GeoPoint(3)>>>>]
      [] kind = "multi" ->
            [type |-> MultiPolygon, has |-> TRUE,
             coordinates |-> <<<<<<GeoPoint(1), GeoPoint(2)>>>>, <<<<GeoPoint(3)>>>>>>]
      [] OTHER -> NoGeo

\* the child of attr P.g: a scalar whose value is a geojson object
GeoNode(kind) ==
    [Node("P.g", FALSE, <<"g">>, FALSE, <<>>) EXCEPT !.geo = GeoValue(kind)]

\* a geo field and its child; the selection set fits the type of the value
GConfs ==
    {c \in [nullable : BOOLEAN, kind : GeoKinds, sels : GeoSels] :
        /\ c.kind = "none" => (c.nullable /\ c.sels = "xy")
        /\ c.kind \in {"pointA", "pointB", "nocoord", "line"} => c.sels \in {"xy", "yx", "x", "ty", "xSkipY"}
        /\ c.kind = "polygon" => c.sels \in {"poly", "polyT", "polyNoY"}
        /\ c.kind = "multi" => c.sels = "multi"}
GDefault == [nullable |-> TRUE, kind |-> "none", sels |-> "xy"]
GeoOrders == {<<"g">>, <<"t", "g">>}

Slots == {"t", "a", "q"}
SelOrders ==
    {o \in UNION {[1..n -> Slots] : n \in 1..3} :
        \A j, k \in DOMAIN o : j # k => o[j] # o[k]}

Runs(kinds) == UNION {[1..n -> kinds] : n \in 0..MaxRun}

\* a selection and the run of children that carry its alias
Confs(kinds) ==
    {c \in [isList : BOOLEAN, nullable : BOOLEAN, itemNullable : BOOLEAN, skip : BOOLEAN,
            list : BOOLEAN, items : Runs(kinds)] :
        /\ ~c.isList => c.itemNullable
        /\ c.skip => (c.nullable /\ c.itemNullable /\ ~c.isList)
        /\ c.items = <<>> => ~c.list
        /\ ~c.list => Len(c.items) <= 1}

\* the children of a have the list-ness of the selection; an object is met
\* only alone and by a nullable selection that is not skipped
AConfs ==
    {c \in Confs({"ok", "err", "obj"}) :
        /\ c.items # <<>> => c.list = c.isList
        /\ c.skip => \A k \in DOMAIN c.items : c.items[k] = "ok"
        /\ (\E k \in DOMAIN c.items : c.items[k] = "obj") => (Len(c.items) = 1 /\ c.nullable)}

\* a child without value is the only child of the root
QConfs ==
    {c \in Confs({"ok", "bad", "nil"}) :
        (\E k \in DOMAIN c.items : c.items[k] = "nil") => (Len(c.items) = 1 /\ c.list /\ ~c.skip)}

Shapes == {"root", "plain", "typed"}

AKids(ac) == [k \in DOMAIN ac.items |-> ANode(ac.list, ac.items[k], k)]
QKids(qc, inner) == [k \in DOMAIN qc.items |-> QNode(qc.list, qc.items[k], inner, k)]

SlotField(slot, ac, qc, inner, shape) ==
    IF slot = "t" THEN FieldT
    ELSE IF slot = "a"
    THEN IF ac.skip
         THEN Skipped(FieldA(ac.isList, ac.nullable, ac.itemNullable), shape = "typed")
         ELSE FieldA(ac.isList, ac.nullable, ac.itemNullable)
    ELSE IF qc.skip
    THEN Skipped(FieldQ(qc.isList, qc.nullable, qc.itemNullable, inner), shape = "typed")
    ELSE FieldQ(qc.isList, qc.nullable, qc.itemNullable, inner)

SlotKids(slot, ac, qc, inner) ==
    IF slot = "t" THEN <<>> ELSE IF slot = "a" THEN AKids(ac) ELSE QKids(qc, inner)

RECURSIVE Concat(_)
Concat(ss) == IF ss = <<>> THEN <<>> ELSE Head(ss) \o Concat(Tail(ss))

Reverse(s) == [k \in 1..Len(s) |-> s[Len(s) + 1 - k]]

\* the arguments of the outermost call: the children follow the order of the
\* selection set, or the reverse order
MakeInput(c) ==
    LET runs == [k \in DOMAIN c.order |->
                    IF c.order[k] = "g" THEN <<GeoNode(c.g.kind)>>
                    ELSE SlotKids(c.order[k], c.a, c.q, c.inner)]
        kids == (IF c.shape = "typed" THEN <<TypeNode>> ELSE <<>>)
                \o (IF c.rev THEN Concat(Reverse(runs)) ELSE Concat(runs))
                \o (IF c.shape = "typed" THEN <<UidNode>> ELSE <<>>)
    IN  [fj |-> Node(IF c.shape = "root" THEN "_root_" ELSE "P.me", FALSE, <<>>, FALSE, kids),
         childSelectionSet |->
            [k \in DOMAIN c.order |->
                IF c.order[k] = "g" THEN FieldG(c.g.nullable, GeoSelection(c.g.sels))
                ELSE SlotField(c.order[k], c.a, c.q, c.inner, c.shape)],
         parentField |-> FieldMe]

ADefault == [isList |-> FALSE, nullable |-> TRUE, itemNullable |-> TRUE, skip |-> FALSE,
             list |-> FALSE, items |-> <<>>]
QDefault == ADefault
Has(order, slot) == \E k \in DOMAIN order : order[k] = slot
HasItem(conf, kind) == \E k \in DOMAIN conf.items : conf.items[k] = kind

\* A selection that is not asked for has no data, and the order of the
\* children is told only where there are children of two attrs.  Lists of
\* scalars are met only where q has no data.  With a and q together a is
\* read well unless q brings an error too, in a plain object; with three
\* selections q is skipped or a list over list children.  The items of q are
\* asked for r only when q is alone in a plain object.  The children of the
\* root are lists.
WideInputs ==
    {c \in [order : SelOrders, a : AConfs, q : QConfs, g : {GDefault},
            inner : {"n", "r", "r!"}, shape : Shapes, rev : BOOLEAN] :
        /\ ~Has(c.order, "a") => c.a = ADefault
        /\ ~Has(c.order, "q") => c.q = QDefault
        /\ c.rev => (c.a.items # <<>> /\ c.q.items # <<>>)
        /\ (c.a.isList \/ HasItem(c.a, "obj")) => c.q.items = <<>>
        /\ (Has(c.order, "a") /\ Has(c.order, "q") /\ HasItem(c.a, "err")) =>
                /\ Len(c.order) = 2 /\ ~c.rev /\ c.shape = "plain"
                /\ HasItem(c.q, "bad") \/ (c.q.items # <<>> /\ c.q.isList # c.q.list)
        /\ Len(c.order) = 3 => (c.a.nullable /\ (c.q.skip \/ (c.q.isList /\ c.q.list)))
        /\ c.inner # "n" => (c.order = <<"q">> /\ c.shape = "plain" /\ ~HasItem(c.q, "nil")
                             /\ ~c.q.skip)
        /\ HasItem(c.q, "nil") => c.shape = "root"
        /\ (c.shape = "root" /\ c.q.items # <<>>) => c.q.list
        /\ (c.shape = "root" /\ c.a.items # <<>>) => c.a.list
        /\ Len(MakeInput(c).fj.kids) > 0}

\* A geo field is alone or after __typename, in an object that is not the
\* root, and is asked for __typename only after __typename.
GeoInputs ==
    {c \in [order : GeoOrders, a : {ADefault}, q : {QDefault}, g : GConfs,
            inner : {"n"}, shape : {"plain", "typed"}, rev : {FALSE}] :
        /\ c.g.kind # "none"
        /\ c.g.sels \in {"ty", "polyT"} => Has(c.order, "t")}

Inputs == WideInputs \cup GeoInputs

(***************************************************************************)
(* The state machine.                                                      *)
(***************************************************************************)
S == [stack |-> stack, out |-> out, errList |-> errList, ret |-> ret, nullCall |-> nullCall]

\* A call returns false: the step that began it, the number of errors before
\* that step and the number of calls in progress at that step are kept while
\* callers hand the false on ("flying"), and for one step after a caller has
\* written null in its place ("absorbed").
NoFailure == [state |-> "none", by |-> "", errs |-> 0, depth |-> 0]

Failure(t) ==
    IF t.ret = "false"
    THEN IF ret = "false" THEN failure
         ELSE [state |-> "flying", by |-> at, errs |-> Len(errList), depth |-> Len(stack)]
    ELSE IF ret = "false" THEN [failure EXCEPT !.state = "absorbed"]
    ELSE NoFailure

\* the number of errors at the entry of each call in progress
Entry(t) ==
    IF Len(t.stack) > Len(stack) THEN Append(entry, Len(t.errList))
    ELSE SubSeq(entry, 1, Len(t.stack))

Apply(t) ==
    /\ failure' = Failure(t)
    /\ entry' = Entry(t)
    /\ stack' = t.stack
    /\ out' = t.out
    /\ errList' = t.errList
    /\ ret' = t.ret
    /\ nullCall' = t.nullCall
    /\ at' = Branch(t)
    /\ UNCHANGED input

Init ==
    /\ input \in Inputs
    /\ stack = Start(MakeInput(input)).stack
    /\ at = Branch(Start(MakeInput(input)))
    /\ out = <<>>
    /\ errList = <<>>
    /\ ret = "none"
    /\ nullCall = NoNullCall
    /\ failure = NoFailure
    /\ entry = <<0>>

ScalarErr == at = "scalarErr" /\ Apply(scalarErr(S))
ScalarNil == at = "scalarNil" /\ Apply(scalarNil(S))
ScalarVal == at = "scalarVal" /\ Apply(scalarVal(S))
ScalarGeo == at = "scalarGeo" /\ Apply(scalarGeo(S))
ExpectedScalar == at = "expectedScalar" /\ Apply(expectedScalar(S))
OpenObject == at = "openObject" /\ Apply(openObject(S))
HarvestType == at = "harvestType" /\ Apply(harvestType(S))
BeginLoop == at = "beginLoop" /\ Apply(beginLoop(S))
LoopExit == at = "loopExit" /\ Apply(loopExit(S))
LoopSkip == at = "loopSkip" /\ Apply(loopSkip(S))
LoopField == at = "loopField" /\ Apply(loopField(S))
WriteKey == at = "writeKey" /\ Apply(writeKey(S))
TypenameValue == at = "typename" /\ Apply(typename(S))
Misaligned == at = "misaligned" /\ Apply(misaligned(S))
Case1Call == at = "case1Call" /\ Apply(case1Call(S))
Case1Ret == at = "case1Ret" /\ Apply(case1Ret(S))
Case4Call == at = "case4Call" /\ Apply(case4Call(S))
Case4Ret == at = "case4Ret" /\ Apply(case4Ret(S))
Case3 == at = "case3" /\ Apply(case3(S))
Case2 == at = "case2" /\ Apply(case2(S))
CloseList == at = "closeList" /\ Apply(closeList(S))
TrailExit == at = "trailExit" /\ Apply(trailExit(S))
TrailSkip == at = "trailSkip" /\ Apply(trailSkip(S))
TrailField == at = "trailField" /\ Apply(trailField(S))
CloseObject == at = "closeObject" /\ Apply(closeObject(S))

Next ==
    \/ ScalarErr \/ ScalarNil \/ ScalarVal \/ ScalarGeo \/ ExpectedScalar \/ OpenObject
    \/ HarvestType \/ BeginLoop
    \/ LoopExit \/ LoopSkip \/ LoopField \/ WriteKey
    \/ TypenameValue \/ Misaligned
    \/ Case1Call \/ Case1Ret \/ Case4Call \/ Case4Ret \/ Case3 \/ Case2
    \/ CloseList
    \/ TrailExit \/ TrailSkip \/ TrailField
    \/ CloseObject

Spec == Init /\ [][Next]_vars

(***************************************************************************)
(* JSON: the grammar of a value over the bytes of the buffer.  Each parser *)
(* gives the position after what it has read, or 0 when it cannot read.    *)
(***************************************************************************)
IsDigit(c) == c \in {"0", "1", "2", "3", "4", "5", "6", "7", "8", "9"}

RECURSIVE JsonString(_, _)
\* p is after the opening quote
JsonString(b, p) ==
    IF p > Len(b) THEN 0
    ELSE IF b[p] = "\"" THEN p + 1
    ELSE JsonString(b, p + 1)

RECURSIVE JsonDigits(_, _)
JsonDigits(b, p) == IF p <= Len(b) /\ IsDigit(b[p]) THEN JsonDigits(b, p + 1) ELSE p

\* digits, and digits after a point if there is a point
JsonNumber(b, p) ==
    LET e == JsonDigits(b, p) IN
    IF e <= Len(b) /\ b[e] = "."
    THEN (IF JsonDigits(b, e + 1) = e + 1 THEN 0 ELSE JsonDigits(b, e + 1))
    ELSE e

RECURSIVE JsonValue(_, _), JsonMembers(_, _), JsonElements(_, _)
JsonValue(b, p) ==
    IF p > Len(b) THEN 0
    ELSE IF b[p] = "{"
    THEN IF p + 1 <= Len(b) /\ b[p + 1] = "}" THEN p + 2 ELSE JsonMembers(b, p + 1)
    ELSE IF b[p] = "["
    THEN IF p + 1 <= Len(b) /\ b[p + 1] = "]" THEN p + 2 ELSE JsonElements(b, p + 1)
    ELSE IF b[p] = "\"" THEN JsonString(b, p + 1)
    ELSE IF b[p] = "n"
    THEN IF p + 3 <= Len(b) /\ SubSeq(b, p, p + 3) = NullBytes THEN p + 4 ELSE 0
    ELSE IF IsDigit(b[p]) THEN JsonNumber(b, p)
    ELSE 0

\* p is at the key of a member
JsonMembers(b, p) ==
    LET k == IF p <= Len(b) /\ b[p] = "\"" THEN JsonString(b, p + 1) ELSE 0
        v == IF k # 0 /\ k <= Len(b) /\ b[k] = ":" THEN JsonValue(b, k + 1) ELSE 0
    IN  IF v = 0 \/ v > Len(b) THEN 0
        ELSE IF b[v] = "," THEN JsonMembers(b, v + 1)
        ELSE IF b[v] = "}" THEN v + 1
        ELSE 0

\* p is at an element
JsonElements(b, p) ==
    LET v == JsonValue(b, p)
    IN  IF v = 0 \/ v > Len(b) THEN 0
        ELSE IF b[v] = "," THEN JsonElements(b, v + 1)
        ELSE IF b[v] = "]" THEN v + 1
        ELSE 0

IsJson(b) == JsonValue(b, 1) = Len(b) + 1

\* the outermost call has returned
Returned == at = "done"

(***************************************************************************)
(* C1: when the outermost call of encodeGraphQL returns true, the bytes of *)
(* the buffer are one JSON value.                                          *)
(***************************************************************************)
C1_ValidJson == (Returned /\ ret = "true") => IsJson(out)

(***************************************************************************)
(* The keys of an object: the strings at depth 1 that a colon follows.     *)
(***************************************************************************)
RECURSIVE KeysFrom(_, _, _)
KeysFrom(b, p, depth) ==
    IF p > Len(b) THEN <<>>
    ELSE IF b[p] \in {"{", "["} THEN KeysFrom(b, p + 1, depth + 1)
    ELSE IF b[p] \in {"}", "]"} THEN KeysFrom(b, p + 1, depth - 1)
    ELSE IF b[p] = "\""
    THEN LET e == JsonString(b, p + 1) IN
         IF e = 0 THEN <<>>
         ELSE IF depth = 1 /\ e <= Len(b) /\ b[e] = ":"
         THEN <<SubSeq(b, p + 1, e - 2)>> \o KeysFrom(b, e, depth)
         ELSE KeysFrom(b, e, depth)
    ELSE KeysFrom(b, p + 1, depth)

KeysOf(b) == KeysFrom(b, 1, 0)

\* the response names of the selections that are not skipped, in their order
RECURSIVE ExpectedKeys(_, _)
ExpectedKeys(sels, dgraphTypes) ==
    IF sels = <<>> THEN <<>>
    ELSE (IF skipField(Head(sels), dgraphTypes) THEN <<>> ELSE <<Head(sels).ResponseName>>)
         \o ExpectedKeys(Tail(sels), dgraphTypes)

\* the bytes that the running call has appended
Appended(s) == SubSeq(s.out, Top(s).base + 1, Len(s.out))

\* the joined loop has turned MaxCnt times for one selection, more often than
\* a run of children is long: it turns without end
Stuck == at = "stop"

(***************************************************************************)
(* C2: every call for an object comes to write the keys of exactly the     *)
(* selections that are not skipped, each once, in the order of the         *)
(* selection set: the loop does not stay on one selection, and when the    *)
(* call is about to close the object these are the keys it has written.    *)
(***************************************************************************)
C2_KeysAtClose ==
    at = "closeObject" =>
        KeysOf(Appended(S)) = ExpectedKeys(Top(S).childSelectionSet, Top(S).dgraphTypes)

C2_Keys == ~Stuck /\ C2_KeysAtClose

(***************************************************************************)
(* Failures that begin with a non-null violation: the steps that find no   *)
(* data for a selection that is no list and must not be null, and append   *)
(* ErrExpectedNonNull.                                                     *)
(***************************************************************************)
NonNullViolation == failure.by \in {"misaligned", "trailField"}

EndsWith(b, tail) ==
    Len(b) >= Len(tail) /\ SubSeq(b, Len(b) - Len(tail) + 1, Len(b)) = tail

\* the running call has just written null in place of what a failed call wrote
Absorbed == failure.state = "absorbed"

\* the caller hands on the false it was returned
Propagates == ret = "false" /\ ret' = "false" /\ Len(stack') < Len(stack)

\* the selection of the running call can be null, or its items can
TakesNull(f) ==
    IF f.curSelectionIsList
    THEN f.curSelection.ItemNullable \/ f.curSelection.Nullable
    ELSE f.curSelection.Nullable

\* null stands where the value of the selection or the item of its list stood
NullInPlace(f, b) ==
    LET key == writeKeyGraphQL(f.curSelection, <<>>) IN
    IF f.curSelectionIsList /\ f.curSelection.ItemNullable
    THEN /\ b = Truncate(b, f.itemPos) \o NullBytes
         /\ EndsWith(b, <<"[">> \o NullBytes) \/ EndsWith(b, <<",">> \o NullBytes)
    ELSE EndsWith(b, key \o NullBytes)

C3_OneError ==
    (failure.state # "none" /\ NonNullViolation) =>
        /\ Len(errList) = failure.errs + 1
        /\ errList[Len(errList)].Message = ErrExpectedNonNull

C3_AtAbsorption ==
    (Absorbed /\ NonNullViolation) => (TakesNull(Top(S)) /\ NullInPlace(Top(S), out))

C3_Nearest == Propagates => ~TakesNull(Top(S))

(***************************************************************************)
(* C3: when a nested call fails by a non-null violation below a nullable   *)
(* field, the callers that cannot take null hand the failure on, the first *)
(* caller whose selection can be null cuts the buffer back and the value   *)
(* of that selection is exactly null; from the violation on the error list *)
(* holds one error more than before it, the error of the violation.        *)
(***************************************************************************)
C3_NullAtNearestNullable ==
    [](C3_OneError /\ C3_AtAbsorption) /\ [][C3_Nearest]_vars

\* the failure went through a caller that could not take null
C3_Witness ==
    /\ Absorbed /\ NonNullViolation
    /\ failure.depth >= Len(stack) + 2
    /\ EndsWith(out, <<"\"", "q", "\"", ":">> \o NullBytes)

(***************************************************************************)
(* The state after the step that is being taken, and the selection and the *)
(* children that the running call is on.                                   *)
(***************************************************************************)
SP == [stack |-> stack', out |-> out', errList |-> errList', ret |-> ret',
       nullCall |-> nullCall']

\* the call for an item of a list has returned false
ItemFailed == at = "case1Ret" /\ ret = "false"

\* position p is the first after the run of children with the attr of cur
PastRun(f, p) ==
    LET kids == f.fj.kids
        attrId == idForAttr(f.curSelection.DgraphAlias)
    IN  /\ p > f.cur
        /\ \A j \in f.cur..(p - 1) : getAttr(kids[j]) = attrId
        /\ p > Len(kids) \/ getAttr(kids[p]) # attrId

\* [T]: null stands for the item, the items before it stay, the list goes on
\* with the next item or is closed by ]
C4_ItemNull ==
    LET f == Top(S)
        g == Top(SP)
        after == Step(SP)
        more == f.i + 1 < Len(f.childSelectionSet)
    IN  /\ out' = Truncate(out, f.itemPos) \o NullBytes
        /\ Len(stack') = Len(stack) /\ ~g.nullWritten /\ g.child = f.cur + 1
        /\ IF PastRun(f, f.cur + 1)
           THEN /\ after.out = out' \o <<"]">> \o (IF more THEN <<",">> ELSE <<>>)
                /\ Top(after).i = f.i + 1
           ELSE /\ after.out = out' \o <<",">>
                /\ Top(after).i = f.i /\ Top(after).child = f.cur + 1

\* [T!]: null stands for the list, no ] follows, the children of the list are
\* passed and the next turn of the loop is for the next selection
C4_ListNull ==
    LET f == Top(S)
        g == Top(SP)
        after == Step(SP)
        more == f.i + 1 < Len(f.childSelectionSet)
    IN  /\ out' = Truncate(out, f.keyEndPos) \o NullBytes
        /\ EndsWith(out', writeKeyGraphQL(f.curSelection, <<>>) \o NullBytes)
        /\ Len(stack') = Len(stack) /\ g.nullWritten /\ PastRun(f, g.child)
        /\ after.out = out' \o (IF more THEN <<",">> ELSE <<>>)
        /\ Top(after).i = f.i + 1 /\ Top(after).child = g.child

\* [T!]!: the call returns false
C4_ListFails == ret' = "false" /\ Len(stack') = Len(stack) - 1 /\ out' = out

(***************************************************************************)
(* C4: when the call for an item of a list returns false, the item becomes *)
(* null if items can be null; else the list becomes null, without ], and   *)
(* the rest of its children is passed, if the list can be null; else the   *)
(* call returns false.  No error is appended in any of the three cases.    *)
(***************************************************************************)
C4_ListItemFailure ==
    [][ItemFailed =>
            /\ errList' = errList
            /\ IF Top(S).curSelection.ItemNullable THEN C4_ItemNull
               ELSE IF Top(S).curSelection.Nullable THEN C4_ListNull
               ELSE C4_ListFails]_vars

\* the first of two items has failed and the list has become null
C4_Witness ==
    LET f == Top(S) IN
    /\ Absorbed /\ at = "closeList"
    /\ f.curSelectionIsList /\ ~f.curSelection.ItemNullable /\ f.nullWritten
    /\ f.cnt = 1 /\ f.cur >= 2 /\ getAttr(f.fj.kids[f.cur - 1]) = getAttr(f.fj.kids[f.cur])
    /\ EndsWith(out, <<"\"", "q", "\"", ":">> \o NullBytes)

(***************************************************************************)
(* A selection without data: the child that the loop is on carries another *)
(* attr (lines 195-217), or the children are used up (lines 346-379).      *)
(***************************************************************************)
NoDataStep == at \in {"misaligned", "trailField"}

\* the selection that the step is for
NoDataSelection ==
    IF at = "misaligned" THEN Top(S).curSelection
    ELSE Top(S).childSelectionSet[Top(S).i + 1]

\* the step writes [] after the key, appends no error and does not return
C5_EmptyListWritten ==
    LET f == Top(S)
        sel == NoDataSelection
        key == writeKeyGraphQL(sel, <<>>)
        more == f.i + 1 < Len(f.childSelectionSet)
    IN  (NoDataStep /\ sel.Name # Typename /\ sel.ListType) =>
            /\ errList' = errList
            /\ Len(stack') = Len(stack)
            /\ IF at = "misaligned"
               THEN out' = Truncate(out, f.keyEndPos) \o <<"[", "]">>
                    /\ EndsWith(out', key \o <<"[", "]">>)
               ELSE out' = out \o key \o <<"[", "]">> \o (IF more THEN <<",">> ELSE <<>>)

\* the loop turns without end on a list selection that has no data
StuckOnEmptyList ==
    /\ Stuck
    /\ Top(S).curSelection.ListType
    /\ Top(S).curSelection.DgraphAlias # attrForID(getAttr(Top(S).fj.kids[Top(S).cur]))

(***************************************************************************)
(* C5: a list selection that is not skipped and has no child with its      *)
(* alias gets exactly [] as its value and no error, and the call goes on   *)
(* to the selections after it.                                             *)
(***************************************************************************)
C5_EmptyList == [][C5_EmptyListWritten]_vars /\ [](~StuckOnEmptyList)

\* what holds of the code: the bytes and the error list, not the going on
C5_EmptyListBytes == [][C5_EmptyListWritten]_vars

(***************************************************************************)
(* C6: every call writeGraphQLNull(f, out, keyEndPos) cuts the buffer to   *)
(* keyEndPos bytes; then for a list type it appends [] and returns true,   *)
(* else for a nullable type it appends null and returns true, else it      *)
(* appends nothing and returns false.                                      *)
(***************************************************************************)
C6_NullWriter ==
    nullCall.n = 1 =>
        LET c == nullCall
            kept == SubSeq(c.pre, 1, c.pos)
        IN  /\ c.pos <= Len(c.pre)
            /\ IF c.field.ListType THEN c.ok /\ c.post = kept \o <<"[", "]">>
               ELSE IF c.field.Nullable THEN c.ok /\ c.post = kept \o <<"n", "u", "l", "l">>
               ELSE ~c.ok /\ c.post = kept /\ Len(c.post) = c.pos

\* a list that must not be null gets [] where bytes of its value stood
C6_Witness ==
    /\ nullCall.n = 1 /\ nullCall.ok
    /\ nullCall.field.ListType /\ ~nullCall.field.Nullable
    /\ Len(nullCall.pre) > nullCall.pos
    /\ out = nullCall.post

(***************************************************************************)
(* Skipped selections.                                                     *)
(***************************************************************************)
SkipStep == at \in {"loopSkip", "trailSkip"}

\* the bytes and the error list stay, but for the comma before a skipped
\* last selection; the children with the alias of the selection are passed
C7_SkipStep ==
    LET f == Top(S)
        g == Top(SP)
        sel == f.childSelectionSet[f.i + 1]
        kids == f.fj.kids
        attrId == idForAttr(sel.DgraphAlias)
    IN  SkipStep =>
            /\ errList' = errList
            /\ Len(stack') = Len(stack)
            /\ out' = out \/ (f.i + 1 = Len(f.childSelectionSet) /\ out = out' \o <<",">>)
            /\ g.i = f.i + 1
            /\ (at = "loopSkip" /\ getAttr(kids[f.child]) = attrId) =>
                    /\ g.child > f.child
                    /\ \A j \in f.child..(g.child - 1) : getAttr(kids[j]) = attrId
                    /\ g.child > Len(kids) \/ getAttr(kids[g.child]) # attrId
            /\ (at = "trailSkip" \/ getAttr(kids[f.child]) # attrId) => g.child = f.child

\* the input without the skipped selections and without their children
Strip(c) ==
    LET keep == {k \in DOMAIN c.order :
                    \/ c.order[k] \in {"t", "g"}
                    \/ c.order[k] = "a" /\ ~c.a.skip
                    \/ c.order[k] = "q" /\ ~c.q.skip}
        Nth(n) == CHOOSE k \in keep : Cardinality({j \in keep : j < k}) = n - 1
    IN  [c EXCEPT !.order = [n \in 1..Cardinality(keep) |-> c.order[Nth(n)]],
                  !.a = IF c.a.skip THEN ADefault ELSE @,
                  !.q = IF c.q.skip THEN QDefault ELSE @]

HasSkipped(c) == c.a.skip \/ c.q.skip

\* the encoder has returned or is followed no more, for an input with a
\* skipped selection whose children follow the order of the selection set
\* and that keeps a selection and a child without the skipped ones
SkipCase ==
    /\ at \in {"done", "stop"}
    /\ HasSkipped(input) /\ ~input.rev
    /\ Strip(input).order # <<>>
    /\ Len(MakeInput(Strip(input)).fj.kids) > 0

C7_SameAsAbsent ==
    SkipCase =>
        LET r == Run(Start(MakeInput(Strip(input)))) IN
        /\ Branch(r) = at
        /\ at = "done" => (r.out = out /\ r.errList = errList /\ r.ret = ret)

C7_SameWhenReturned ==
    (SkipCase /\ at = "done") =>
        LET r == Run(Start(MakeInput(Strip(input)))) IN
        Branch(r) = "done" => (r.out = out /\ r.errList = errList /\ r.ret = ret)

(***************************************************************************)
(* C7: a skipped selection adds no key, no value, no comma and no error,   *)
(* the children with its alias are passed when the loop is on them, and    *)
(* the encoder ends with the bytes, the errors and the result that it ends *)
(* with when the selection and its children are left out of the input.     *)
(***************************************************************************)
C7_Skipped == [][C7_SkipStep]_vars /\ []C7_SameAsAbsent

(***************************************************************************)
(* The object that a tree and a selection set stand for: every response    *)
(* name with the bytes of the children that carry the alias, wherever they *)
(* are among the children.                                                 *)
(***************************************************************************)
RECURSIVE ExpectedValue(_, _), ExpectedMembers(_, _, _), ExpectedItems(_, _, _)
ExpectedValue(node, sels) ==
    IF Len(node.kids) = 0 THEN node.val
    ELSE <<"{">> \o ExpectedMembers(node, sels, 1) \o <<"}">>

ExpectedMembers(node, sels, k) ==
    IF k > Len(sels) THEN <<>>
    ELSE LET sel == sels[k]
             its == SelectSeq(node.kids, LAMBDA n : attrForID(getAttr(n)) = sel.DgraphAlias)
             value == IF sel.ListType
                      THEN <<"[">> \o ExpectedItems(its, sel.SelectionSet, 1) \o <<"]">>
                      ELSE ExpectedValue(its[1], sel.SelectionSet)
         IN  Quoted(sel.ResponseName) \o <<":">> \o value
                \o (IF k < Len(sels) THEN <<",">> ELSE <<>>)
                \o ExpectedMembers(node, sels, k + 1)

ExpectedItems(its, sels, k) ==
    IF k > Len(its) THEN <<>>
    ELSE ExpectedValue(its[k], sels)
            \o (IF k < Len(its) THEN <<",">> ELSE <<>>)
            \o ExpectedItems(its, sels, k + 1)

\* the selections are those of the aliases among the children, each with
\* children of its list-ness that hold every value asked for
Aligned(c) ==
    /\ ~Has(c.order, "t") /\ ~Has(c.order, "g") /\ ~HasSkipped(c)
    /\ Has(c.order, "a") =>
            /\ c.a.items # <<>> /\ c.a.list = c.a.isList
            /\ \A k \in DOMAIN c.a.items : c.a.items[k] = "ok"
    /\ Has(c.order, "q") =>
            /\ c.q.items # <<>> /\ c.q.list = c.q.isList
            /\ \A k \in DOMAIN c.q.items : c.q.items[k] = "ok"

\* the encoder has returned true without error and the bytes are the object
RoundTrip ==
    /\ at = "done" /\ ret = "true" /\ errList = <<>>
    /\ out = ExpectedValue(MakeInput(input).fj, MakeInput(input).childSelectionSet)

Ended == at \in {"done", "stop"}

(***************************************************************************)
(* C8: when the selection set names exactly the aliases of the children,   *)
(* list-ness agrees and the runs of children follow each other in the      *)
(* order of the selection set, the encoder returns true, appends no error  *)
(* and writes for every response name the bytes of its children.           *)
(***************************************************************************)
C8_RoundTripInOrder == (Ended /\ Aligned(input) /\ ~input.rev) => RoundTrip

\* the same for every order of the runs of children
C8_RoundTripAnyOrder == (Ended /\ Aligned(input)) => RoundTrip

\* a scalar and a list of two objects have been written in order
C8_Witness ==
    /\ Aligned(input) /\ ~input.rev /\ RoundTrip
    /\ input.order = <<"a", "q">> /\ Len(input.q.items) = 2
    /\ IsJson(out) /\ KeysOf(out) = <<<<"a">>, <<"q">>>>

(***************************************************************************)
(* The keys of the objects at every depth, and the response names of the   *)
(* selections of the input at every depth.                                 *)
(***************************************************************************)
RECURSIVE AllKeysFrom(_, _)
AllKeysFrom(b, p) ==
    IF p > Len(b) THEN {}
    ELSE IF b[p] = "\""
    THEN LET e == JsonString(b, p + 1) IN
         IF e = 0 THEN {}
         ELSE IF e <= Len(b) /\ b[e] = ":"
         THEN {SubSeq(b, p + 1, e - 2)} \cup AllKeysFrom(b, e)
         ELSE AllKeysFrom(b, e)
    ELSE AllKeysFrom(b, p + 1)

RECURSIVE ResponseNames(_)
ResponseNames(sels) ==
    IF sels = <<>> THEN {}
    ELSE {Head(sels).ResponseName} \cup ResponseNames(Head(sels).SelectionSet)
            \cup ResponseNames(Tail(sels))

\* the children at the head that carry dgraph.type
RECURSIVE TypeChildren(_, _)
TypeChildren(kids, k) ==
    IF k <= Len(kids) /\ getAttr(kids[k]) = dgraphTypeAttrId
    THEN TypeChildren(kids, k + 1) ELSE k - 1

\* the loop over the selections is about to begin: the call has written {
\* and nothing else, and has taken the types from all children at the head
C9_TypesDrained ==
    at = "beginLoop" =>
        LET f == Top(S) IN
        /\ Appended(S) = <<"{">>
        /\ f.child = TypeChildren(f.fj.kids, 1) + 1
        /\ Len(f.dgraphTypes) = f.child - 1
        /\ f.i = 0

\* the bytes of dgraph.uid ("9") are not in the buffer, and the bytes of
\* dgraph.type ("P") are there only where __typename is asked for
C9_NoSyntheticBytes ==
    \A k \in DOMAIN out :
        /\ out[k] # "9"
        /\ out[k] = "P" => Has(input.order, "t")

C9_KeysAreResponseNames ==
    AllKeysFrom(out, 1) \subseteq ResponseNames(MakeInput(input).childSelectionSet)

(***************************************************************************)
(* C9: the children dgraph.type at the head are taken into dgraphTypes     *)
(* before the first selection and none of their bytes is written, the      *)
(* child dgraph.uid is never written, and every key in the buffer is the   *)
(* response name of a selection.                                           *)
(***************************************************************************)
C9_NoSyntheticPredicates ==
    C9_TypesDrained /\ C9_NoSyntheticBytes /\ C9_KeysAreResponseNames

\* dgraph.uid was met while a selection remained: the selection has got null
\* or [] in an object that told its type
C9_Witness ==
    LET f == Top(S) IN
    /\ at = "closeList" /\ f.nullWritten
    /\ getAttr(f.fj.kids[f.cur]) = idForAttr("dgraph.uid")
    /\ Len(f.dgraphTypes) > 0 /\ ~Has(input.order, "t")
    /\ AllKeysFrom(out, 1) # {}

(***************************************************************************)
(* The order of the traversal on paths: a selection comes before the       *)
(* selections after it in its selection set, an item of a list before the  *)
(* items after it, a field before what is below it.                        *)
(***************************************************************************)
IsPrefix(p, q) == Len(p) <= Len(q) /\ SubSeq(q, 1, Len(p)) = p

\* the place of a response name in the selection set of the input; the
\* selection sets below it have one selection each
KeyRank(resp) ==
    LET sels == MakeInput(input).childSelectionSet IN
    IF \E k \in DOMAIN sels : sels[k].ResponseName = resp
    THEN CHOOSE k \in DOMAIN sels : sels[k].ResponseName = resp
    ELSE 0

SegBefore(a, b) ==
    IF a.idx >= 0 /\ b.idx >= 0 THEN a.idx < b.idx
    ELSE KeyRank(a.key) < KeyRank(b.key)

RECURSIVE PathBefore(_, _)
PathBefore(p, q) ==
    IF p = <<>> THEN TRUE
    ELSE IF q = <<>> THEN FALSE
    ELSE IF Head(p) = Head(q) THEN PathBefore(Tail(p), Tail(q))
    ELSE SegBefore(Head(p), Head(q))

C10_AppendOnly == IsPrefix(errList, errList')

C10_InOrder ==
    \A j, k \in DOMAIN errList :
        j < k => PathBefore(errList[j].Path, errList[k].Path)

(***************************************************************************)
(* C10: every step leaves the errors that are in the list where they are   *)
(* and adds errors only at its end, and the paths of the errors follow the *)
(* order of the traversal.                                                 *)
(***************************************************************************)
C10_ErrorsAppendOnly == [][C10_AppendOnly]_vars /\ []C10_InOrder

\* the buffer has been cut back for a second error, under another selection
\* than the first, and the first error is still there
C10_Witness ==
    /\ Len(errList) = 2
    /\ errList[1].Path[1] # errList[2].Path[1]
    /\ Absorbed \/ ret = "false"

(***************************************************************************)
(* C11: no comma is the byte before a closing }: neither when the call is  *)
(* about to write } nor anywhere in the buffer, whichever selections are   *)
(* skipped.                                                                *)
(***************************************************************************)
C11_NoCommaBeforeBrace ==
    /\ at = "closeObject" => (out # <<>> /\ out[Len(out)] # ",")
    /\ \A k \in DOMAIN out : (out[k] = "}" /\ k > 1) => out[k - 1] # ","

\* the two selections after __typename are skipped and the object is closed
C11_Witness ==
    /\ at = "done" /\ ret = "true"
    /\ input.order[1] = "t" /\ Len(input.order) = 3
    /\ input.a.skip /\ input.q.skip
    /\ out = <<"{", "\"", "t", "\"", ":", "\"", "P", "\"", "}">>

(***************************************************************************)
(* The members of an object whose values are numbers or strings: the key   *)
(* and the bytes of the value of each, in their order.                     *)
(***************************************************************************)
RECURSIVE MembersFrom(_, _)
MembersFrom(b, p) ==
    LET e == IF p <= Len(b) /\ b[p] = "\"" THEN JsonString(b, p + 1) ELSE 0
        v == IF e # 0 /\ e <= Len(b) /\ b[e] = ":" THEN JsonValue(b, e + 1) ELSE 0
    IN  IF v = 0 \/ v > Len(b) THEN <<>>
        ELSE <<[key |-> SubSeq(b, p + 1, e - 2), value |-> SubSeq(b, e + 1, v - 1)]>>
                \o (IF b[v] = "," THEN MembersFrom(b, v + 1) ELSE <<>>)

MembersOf(b) == MembersFrom(b, 2)

\* the scalar case is about to complete a geo value
GeoStep == at = "scalarGeo"

\* the bytes that the step appends
Written == SubSeq(out', Len(out) + 1, Len(out'))

\* one object with a member for each selection, in their order, that holds
\* the first coordinate as longitude and the second as latitude
C12_PointWritten ==
    LET f == Top(S)
        g == f.fj.geo
        sels == f.parentField.SelectionSet
        ms == MembersOf(Written)
    IN  /\ ret' = "true" /\ errList' = errList
        /\ IsPrefix(out, out') /\ IsJson(Written)
        /\ Len(ms) = Len(sels)
        /\ \A k \in DOMAIN sels :
                /\ ms[k].key = sels[k].ResponseName
                /\ sels[k].Name = Longitude =>
                        (JsonNumber(ms[k].value, 1) = Len(ms[k].value) + 1
                         /\ ParseFloat(ms[k].value) = ParseFloat(g.coordinates[1]))
                /\ sels[k].Name = Latitude =>
                        (JsonNumber(ms[k].value, 1) = Len(ms[k].value) + 1
                         /\ ParseFloat(ms[k].value) = ParseFloat(g.coordinates[2]))
                /\ sels[k].Name = Typename =>
                        ms[k].value = <<"\"", "P", "o", "i", "n", "t", "\"">>

\* no byte is written, one error with the path of the field is appended and
\* the call returns false
C12_GeoRefused ==
    /\ out' = out /\ ret' = "false"
    /\ Len(errList') = Len(errList) + 1 /\ IsPrefix(errList, errList')
    /\ errList'[Len(errList')].Path = Top(S).parentPath
    /\ Len(stack') = Len(stack) - 1

(***************************************************************************)
(* C12: a geo value of type Point with coordinates [lon, lat] is written   *)
(* as one object whose keys are the response names of the selection set of *)
(* the field, in their order, with lon as longitude, lat as latitude and   *)
(* "Point" as __typename; a value without coordinates or of another type   *)
(* than Point, Polygon and MultiPolygon writes nothing and gives one error *)
(* and the return of false.                                                *)
(***************************************************************************)
C12_GeoPoint ==
    [][GeoStep =>
            LET g == Top(S).fj.geo IN
            /\ (g.has /\ g.type = Point) => C12_PointWritten
            /\ (~g.has \/ g.type \notin {Point, Polygon, MultiPolygon}) => C12_GeoRefused]_vars

\* latitude was asked for before longitude, and 1.50 has been written as 1.5
C12_Witness ==
    /\ at = "case4Ret" /\ ret = "true"
    /\ Top(S).curSelection.IsGeo
    /\ EndsWith(out, <<"{", "\"", "y", "\"", ":", "2", ",", "\"", "x", "\"", ":", "1", ".", "5", "}">>)

(***************************************************************************)
(* A turn of the joined loop ends with Step-3 and Step-4.  cur is the      *)
(* child that the turn began with.                                         *)
(***************************************************************************)
TurnEnds == at = "closeList"

\* the turn leaves the loop on a later selection or on a later child
C13_Progress ==
    TurnEnds => (Top(SP).i > Top(S).i \/ Top(SP).child > Top(S).cur)

(***************************************************************************)
(* C13: every turn of the joined loop advances the selection index i or    *)
(* the cursor child, and the encoder is never found turning on one         *)
(* selection more often than its run of children is long: it terminates.   *)
(***************************************************************************)
C13_Terminates == [][C13_Progress]_vars /\ [](~Stuck)

(***************************************************************************)
(* The selection __typename, in the joined loop and in the trailing loop.  *)
(***************************************************************************)
\* the value is written after the key, once, and the cursor stays
C14_TypenameValue ==
    LET f == Top(S) IN
    at = "typename" =>
        /\ EndsWith(out, writeKeyGraphQL(f.curSelection, <<>>))
        /\ out' = out \o Quoted(TypeName(f.curSelection, f.dgraphTypes))
        /\ Top(SP).child = f.child /\ f.child = f.cur
        /\ errList' = errList

\* the turn for __typename leaves the loop on the next selection and on the
\* child that it began with
C14_TypenameTurn ==
    LET f == Top(S) IN
    (TurnEnds /\ f.curSelection.Name = Typename) =>
        (Top(SP).i = f.i + 1 /\ Top(SP).child = f.cur)

\* with no child left: key, value, and the next selection
C14_TypenameTrailing ==
    LET f == Top(S)
        sel == f.childSelectionSet[f.i + 1]
    IN  (at = "trailField" /\ sel.Name = Typename) =>
            /\ out' = writeKeyGraphQL(sel, out) \o Quoted(TypeName(sel, f.dgraphTypes))
                        \o (IF f.i + 1 < Len(f.childSelectionSet) THEN <<",">> ELSE <<>>)
            /\ Top(SP).i = f.i + 1 /\ Top(SP).child = f.child
            /\ errList' = errList

(***************************************************************************)
(* C14: for the selection __typename the encoder writes the key and the    *)
(* quoted type name once, does not move the cursor and goes on to the next *)
(* selection, which is encoded from the child that the cursor was on.      *)
(***************************************************************************)
C14_Typename == [][C14_TypenameValue /\ C14_TypenameTurn /\ C14_TypenameTrailing]_vars

\* what holds of the code: the first value and the trailing loop
C14_TypenameWritten ==
    [][(Top(S).cnt = 1 => C14_TypenameValue) /\ C14_TypenameTrailing]_vars

(***************************************************************************)
(* A selection whose alias is not that of the child the loop is on, and a  *)
(* selection that is left when no child is left.                           *)
(***************************************************************************)
\* what the selection gets after the bytes b: [] for a list, null if it may
\* be null; else nothing, the error of the selection and the return of false
C15_NullOrError(sel, b) ==
    LET f == Top(S)
        error == [Message |-> ErrExpectedNonNull,
                  Path |-> Append(f.parentPath, KeySeg(sel.ResponseName))]
    IN  IF sel.ListType
        THEN out' = b \o <<"[", "]">> /\ errList' = errList /\ Len(stack') = Len(stack)
        ELSE IF sel.Nullable
        THEN out' = b \o NullBytes /\ errList' = errList /\ Len(stack') = Len(stack)
        ELSE /\ out' = b /\ errList' = Append(errList, error)
             /\ ret' = "false" /\ Len(stack') = Len(stack) - 1

C15_Misaligned ==
    LET f == Top(S) IN
    at = "misaligned" =>
        /\ Len(out) >= f.keyEndPos
        /\ EndsWith(Truncate(out, f.keyEndPos), writeKeyGraphQL(f.curSelection, <<>>))
        /\ C15_NullOrError(f.curSelection, Truncate(out, f.keyEndPos))
        /\ Len(stack') = Len(stack) => Top(SP).child = f.child

\* the turn leaves the loop on the next selection and on the same child
C15_MisalignedTurn ==
    LET f == Top(S) IN
    (TurnEnds /\ f.curSelection.Name # Typename
        /\ f.curSelection.DgraphAlias # attrForID(getAttr(f.fj.kids[f.cur]))) =>
        (Top(SP).i = f.i + 1 /\ Top(SP).child = f.cur)

C15_Trailing ==
    LET f == Top(S)
        sel == f.childSelectionSet[f.i + 1]
        more == f.i + 1 < Len(f.childSelectionSet)
    IN  (at = "trailField" /\ sel.Name # Typename) =>
            IF sel.ListType \/ sel.Nullable
            THEN /\ out' = writeKeyGraphQL(sel, out)
                            \o (IF sel.ListType THEN <<"[", "]">> ELSE NullBytes)
                            \o (IF more THEN <<",">> ELSE <<>>)
                 /\ errList' = errList /\ Top(SP).i = f.i + 1
            ELSE C15_NullOrError(sel, writeKeyGraphQL(sel, out))

(***************************************************************************)
(* C15: a selection whose alias is not the attr of the child under the     *)
(* cursor gets its key and one null, or [] for a list, the cursor stays    *)
(* and the encoder goes on to the next selection; a selection that is no   *)
(* list and must not be null gets one ErrExpectedNonNull with the path of  *)
(* the selection and the call returns false.  The same when no child is    *)
(* left.                                                                   *)
(***************************************************************************)
C15_NoData == [][C15_Misaligned /\ C15_MisalignedTurn /\ C15_Trailing]_vars

\* what holds of the code: the bytes, the error and the cursor
C15_NoDataWritten == [][C15_Misaligned /\ C15_Trailing]_vars

(***************************************************************************)
(* A selection and a child of its alias that differ in list-ness.          *)
(***************************************************************************)
ShapeError(f, message) ==
    [Message |-> message, Path |-> Append(f.parentPath, KeySeg(f.curSelection.ResponseName))]

\* case 3: one ErrExpectedSingleItem; null and the children of the alias
\* passed, or the return of false
C16_SingleItem ==
    LET f == Top(S) IN
    at = "case3" =>
        /\ getAttr(f.fj) # idForAttr("_root_")
        /\ ~f.curSelection.ListType /\ getList(f.fj.kids[f.cur])
        /\ errList' = Append(errList, ShapeError(f, ErrExpectedSingleItem))
        /\ IF f.curSelection.Nullable
           THEN /\ out' = Truncate(out, f.keyEndPos) \o NullBytes
                /\ Len(stack') = Len(stack) /\ PastRun(f, Top(SP).child)
           ELSE /\ out' = Truncate(out, f.keyEndPos)
                /\ ret' = "false" /\ Len(stack') = Len(stack) - 1

\* case 2: one ErrExpectedList, and the cursor on the next child
C16_ListError ==
    LET f == Top(S) IN
    at = "case2" =>
        /\ f.curSelection.ListType /\ ~getList(f.fj.kids[f.cur])
        /\ errList' = Append(errList, ShapeError(f, ErrExpectedList))
        /\ Len(stack') = Len(stack) => Top(SP).child = f.cur + 1

\* case 2 writes [] as the value and does not fail
C16_ListEmpty ==
    at = "case2" =>
        /\ out' = Truncate(out, Top(S).keyEndPos) \o <<"[", "]">>
        /\ Len(stack') = Len(stack)

\* case 2 writes null as the value, or fails if the list must not be null
C16_ListNull ==
    at = "case2" =>
        IF Top(S).curSelection.Nullable
        THEN out' = Truncate(out, Top(S).keyEndPos) \o NullBytes /\ Len(stack') = Len(stack)
        ELSE ret' = "false" /\ Len(stack') = Len(stack) - 1

\* under _root_ a list child of a selection that is no list is encoded by a
\* call of its own, without error
C16_Root ==
    LET f == Top(S) IN
    (at \in {"case3", "case4Call"} /\ getList(f.fj.kids[f.cur])) =>
        IF getAttr(f.fj) = idForAttr("_root_")
        THEN /\ at = "case4Call" /\ errList' = errList
             /\ Len(stack') = Len(stack) + 1 /\ Top(SP).fj = f.fj.kids[f.cur]
        ELSE at = "case3"

(***************************************************************************)
(* C16: a selection that is no list on a list child, not under _root_,     *)
(* gets one ErrExpectedSingleItem and null (or the call returns false) and *)
(* the children of its alias are passed; a list selection on a child that  *)
(* is no list gets one ErrExpectedList and [] as its value, whether the    *)
(* list may be null or not, and the cursor moves by one child; under       *)
(* _root_ the list child of a selection that is no list is encoded by a    *)
(* call of its own and no error is appended.                               *)
(***************************************************************************)
C16_ListnessMismatch ==
    [][C16_SingleItem /\ C16_ListError /\ C16_ListEmpty /\ C16_Root]_vars

\* the same with null, or failure, as the value of the list selection
C16_ListnessMismatchNull ==
    [][C16_SingleItem /\ C16_ListError /\ C16_ListNull /\ C16_Root]_vars

\* a list that may be null has got [] on a child that is no list
C16_Witness ==
    LET f == Top(S) IN
    /\ TurnEnds /\ f.nullWritten
    /\ f.curSelection.ListType /\ f.curSelection.Nullable
    /\ f.curSelection.DgraphAlias = attrForID(getAttr(f.fj.kids[f.cur]))
    /\ ~getList(f.fj.kids[f.cur])
    /\ errList # <<>> /\ errList[Len(errList)].Message = ErrExpectedList
    /\ EndsWith(out, writeKeyGraphQL(f.curSelection, <<>>) \o <<"[", "]">>)

(***************************************************************************)
(* Truncations.  A step cuts the buffer when the buffer after it does not  *)
(* begin with the buffer before it; the bytes that it keeps are at least   *)
(* the bytes that the two buffers have in common at their head.            *)
(***************************************************************************)
RECURSIVE CommonFrom(_, _, _)
CommonFrom(a, b, k) ==
    IF k <= Len(a) /\ k <= Len(b) /\ a[k] = b[k] THEN CommonFrom(a, b, k + 1) ELSE k - 1

Kept == CommonFrom(out, out', 1)

\* the steps that cut to keyEndPos, to itemPos, or cut a comma
CutsToKeyEnd ==
    \/ at \in {"misaligned", "case3", "case2"}
    \/ at = "case4Ret" /\ ret = "false"
    \/ at = "case1Ret" /\ ret = "false" /\ ~Top(S).curSelection.ItemNullable
            /\ Top(S).curSelection.Nullable
CutsToItem == at = "case1Ret" /\ ret = "false" /\ Top(S).curSelection.ItemNullable
CutsComma == at \in {"loopSkip", "trailSkip"}

\* keyEndPos is where the key of the selection of this turn ends, after the
\* bytes that the call had written before the key
KeyEndIsCurrent(f) ==
    LET key == writeKeyGraphQL(f.curSelection, <<>>) IN
    /\ f.keyEndPos >= f.base + 1 + Len(key) /\ f.keyEndPos <= Len(out)
    /\ EndsWith(Truncate(out, f.keyEndPos), key)
    /\ f.curSelection = f.childSelectionSet[f.i + 1]

C17_Cut ==
    LET f == Top(S) IN
    stack # <<>> =>
        /\ Kept >= f.base
        /\ CutsToKeyEnd => (KeyEndIsCurrent(f) /\ Kept >= f.keyEndPos)
        /\ CutsToItem => (KeyEndIsCurrent(f) /\ f.itemPos > f.keyEndPos /\ Kept >= f.itemPos)
        /\ CutsComma => (Kept >= Len(out) - 1 /\ Kept > f.base)
        /\ ~(CutsToKeyEnd \/ CutsToItem \/ CutsComma \/ at = "trailField") => IsPrefix(out, out')
        /\ at = "trailField" => Kept = Len(out)

(***************************************************************************)
(* C17: a step of a call never cuts the buffer below its length at the     *)
(* entry of the call; a cut to keyEndPos is a cut to the end of the key of *)
(* the selection that the call is on, never to 0 and never to the key of a *)
(* selection before it; a cut for an item is a cut behind that key; a cut  *)
(* of a comma takes one byte that the call has written.                    *)
(***************************************************************************)
C17_TruncationOffsets == [][C17_Cut]_vars

\* the second selection of an object below the outermost one has lost the
\* bytes of its value, and the bytes before its key are there
C17_Witness ==
    LET f == Top(S) IN
    /\ TurnEnds /\ f.nullWritten /\ f.i >= 1
    /\ nullCall.n = 1 /\ Len(nullCall.pre) > nullCall.pos /\ nullCall.pos = f.keyEndPos
    /\ out = nullCall.post /\ f.keyEndPos > f.base + 4

(***************************************************************************)
(* Paths of list items.                                                    *)
(***************************************************************************)
\* the number of children of the same predicate that stand immediately
\* before child c
RECURSIVE RunPos(_, _)
RunPos(kids, c) ==
    IF c > 1 /\ getAttr(kids[c - 1]) = getAttr(kids[c]) THEN 1 + RunPos(kids, c - 1) ELSE 0

C18_ItemIndex ==
    at = "case1Call" =>
        LET f == Top(S)
            g == Top(SP)
        IN  /\ Len(stack') = Len(stack) + 1
            /\ g.parentField = f.curSelection
            /\ g.parentPath = f.parentPath \o <<KeySeg(f.curSelection.ResponseName),
                                                 IdxSeg(RunPos(f.fj.kids, f.cur))>>

C18_ErrorsBelow ==
    \A j \in 1..Len(stack) : \A k \in (Len(errList) + 1)..Len(errList') :
        IsPrefix(stack[j].parentPath, errList'[k].Path)

(***************************************************************************)
(* C18: the call for an item of a list runs with the path of its caller,   *)
(* the response name of the selection and the zero-based position of the   *)
(* item among the contiguous children of the predicate; every error that   *)
(* is appended while a call is running has the path of that call as a      *)
(* prefix of its path.                                                     *)
(***************************************************************************)
C18_ItemPath == [][C18_ItemIndex /\ C18_ErrorsBelow]_vars

\* the run has ended with an error below item 0 and an error below item 1
\* of the same list, whose selection stands behind a __typename selection
C18_Witness ==
    /\ Ended
    /\ \E a, b \in 1..Len(errList) :
          /\ a < b /\ Len(errList[a].Path) >= 3 /\ Len(errList[b].Path) >= 3
          /\ errList[a].Path[1] = errList[b].Path[1]
          /\ errList[a].Path[2] = IdxSeg(0) /\ errList[b].Path[2] = IdxSeg(1)
    /\ Len(input.order) >= 2 /\ input.order[1] = "t" /\ ~input.rev

(***************************************************************************)
(* Calls that return false.                                                *)
(***************************************************************************)
ReturnsFalse == Len(stack') < Len(stack) /\ ret' = "false"
\* the error list is longer at the return than it was at the entry of the call
GrownSinceEntry == Len(errList') > entry[Len(stack)]

ScalarEntry == stack # <<>> /\ Top(S).pc = "entry" /\ Len(Top(S).fj.kids) = 0

C20_Step ==
    ScalarEntry =>
        LET f == Top(S)
            v == getScalarVal(f.fj)
        IN  /\ stack' = SubSeq(stack, 1, Len(stack) - 1)
            /\ v.err =>
                  /\ errList' = Append(errList, GqlErrorf(f.parentPath, ErrScalarVal))
                  /\ out' = out /\ ret' = "false"
            /\ (~v.err /\ v.val = <<>>) =>
                  /\ errList' = errList /\ out' = out
                  /\ ret' = IF f.parentField.ListType THEN "true" ELSE "false"
            /\ (~v.err /\ v.val # <<>> /\ ~f.parentField.IsGeo) =>
                  /\ errList' = errList /\ out' = out \o v.val /\ ret' = "true"

(***************************************************************************)
(* C20: the call for a node without children returns at once.  With an     *)
(* absent value it writes nothing, appends no error and returns true       *)
(* exactly when the parent field is of a list type; with a read failure it *)
(* appends one error with the path of the call, writes nothing and returns *)
(* false; with a value of a field that is not a geo field it appends the   *)
(* bytes of the value and returns true.                                    *)
(***************************************************************************)
C20_ScalarCase == [][C20_Step]_vars

\* the call for a node with an absent value under a non-list field has just
\* returned false, behind bytes that its caller has written
C20_Witness ==
    /\ ret = "false" /\ failure.state = "flying" /\ failure.by = "scalarNil"
    /\ failure.depth = Len(stack) + 1 /\ errList = <<>> /\ out # <<>>
    /\ ~Top(S).curSelection.ListType

(***************************************************************************)
(* An object where a scalar was expected.                                  *)
(***************************************************************************)
\* the running call is at its entry, its node has children and it has no
\* selection set
ObjectEntryNoSelection ==
    /\ stack # <<>> /\ Top(S).pc = "entry"
    /\ Len(Top(S).fj.kids) > 0 /\ Len(Top(S).childSelectionSet) = 0

C21_Step ==
    ObjectEntryNoSelection =>
        /\ errList' = Append(errList, GqlErrorf(Top(S).parentPath, ErrExpectedScalar))
        /\ out' = out
        /\ ret' = "false"
        /\ stack' = SubSeq(stack, 1, Len(stack) - 1)

(***************************************************************************)
(* C21: the call for a node with children and an empty selection set       *)
(* appends one ErrExpectedScalar error with the path of the call, writes   *)
(* no byte, not even the opening brace, and returns false.                 *)
(***************************************************************************)
C21_ExpectedScalar == [][C21_Step]_vars

\* the call for an object under a selection without subselections has just
\* returned false, and its error is the last of the list
C21_Witness ==
    /\ ret = "false" /\ failure.state = "flying" /\ failure.by = "expectedScalar"
    /\ failure.depth = Len(stack) + 1 /\ stack # <<>>
    /\ Len(errList) = failure.errs + 1
    /\ errList[Len(errList)].Message = ErrExpectedScalar
    /\ errList[Len(errList)].Path =
          Append(Top(S).parentPath, KeySeg(Top(S).curSelection.ResponseName))

(***************************************************************************)
(* Skip and Include inside a geo value.                                    *)
(***************************************************************************)
\* the response names of the selections that take part in the response, at
\* every depth
RECURSIVE Participating(_)
Participating(sels) ==
    IF sels = <<>> THEN {}
    ELSE (IF skipField(Head(sels), <<>>) THEN {}
          ELSE {Head(sels).ResponseName} \cup Participating(Head(sels).SelectionSet))
            \cup Participating(Tail(sels))

\* the geo value is one that the completer writes
GeoWritten ==
    /\ GeoStep /\ Top(S).fj.geo.has
    /\ Top(S).fj.geo.type \in {Point, Polygon, MultiPolygon}

(***************************************************************************)
(* C22: the object written for a geo value has no key for a subfield whose *)
(* Skip() is true or whose Include() is false: every key of the bytes      *)
(* written is the response name of a subfield that takes part.             *)
(***************************************************************************)
C22_GeoSkip ==
    [][GeoWritten =>
            AllKeysFrom(Written, 1) \subseteq Participating(Top(S).parentField.SelectionSet)]_vars

\* what the completer does: every subfield has its key, skipped or not
C22_GeoSkipIgnored ==
    [][GeoWritten =>
            /\ IsJson(Written)
            /\ AllKeysFrom(Written, 1) = ResponseNames(Top(S).parentField.SelectionSet)]_vars

=============================================================================
